---- MODULE Spec2Model ----
(***************************************************************************)
(* Linkwarden tag clean-up: the case rules, the junk classifier, the fuzzy *)
(* matcher, the consolidation planner (analyze_tags.py) and the periodic   *)
(* normalizer with its read-modify-write of links (normalize_new_tags.py). *)
(* Tag names are strings; a character is a string of length one.           *)
(***************************************************************************)
EXTENDS Integers, Sequences, FiniteSets, TLC

VARIABLES
    case_in, case_out,                      \* normalize_case / choose_canonical_form
    junk_added, junk_pc, junk_in, junk_out, \* JunkTagRemover
    fz_tag, fz_existing, fz_threshold, fz_out,  \* find_similar_tag
    fz_link_tags,                               \* normalize_link_tags on its own
    an_pc, tags, mapping,                   \* TagAnalyzer
    store_tags, store_links,                \* the bookmark store
    caller, dry_run, pc, run,               \* TagNormalizer: the process
    existing_tags_cache, recent_links, idx, \* process_recent_links
    call, link, stats,                      \* update_link_tags
    puts, returns,                          \* the PUT requests sent and the results of update_link_tags, in order
    other_left, pending, overwritten,       \* another client of the store
    rm_pc, analyze, remover_dry_run, min_usage,  \* remove_junk_tags.py: main, JunkTagRemover
    tag_store,                              \* the tags of the store the remover works on
    analysis, junk_tags_sorted, rm_idx,     \* analyze_tags, remove_junk_tags
    remover_stats, deletes                  \* stats, and the DELETE requests sent, in order

caseVars == <<case_in, case_out>>
junkVars == <<junk_added, junk_pc, junk_in, junk_out>>
fuzzyVars == <<fz_tag, fz_existing, fz_threshold, fz_out, fz_link_tags>>
planVars == <<an_pc, tags, mapping>>
storeVars == <<store_tags, store_links>>
procVars == <<caller, dry_run, pc, run, existing_tags_cache, recent_links, idx, call, link, stats>>
otherVars == <<other_left, pending, overwritten>>
normVars == <<storeVars, procVars, puts, returns, otherVars>>
removerVars == <<rm_pc, analyze, remover_dry_run, min_usage, tag_store, analysis,
                 junk_tags_sorted, rm_idx, remover_stats, deletes>>
vars == <<caseVars, junkVars, fuzzyVars, planVars, normVars, removerVars>>

(***************************************************************************)
(* Python str operations on ASCII text.                                    *)
(***************************************************************************)
LowerLetters == "abcdefghijklmnopqrstuvwxyz"
UpperLetters == "ABCDEFGHIJKLMNOPQRSTUVWXYZ"
DigitChars == "0123456789"
SpaceChars == " "

Ch(s, i) == SubSeq(s, i, i)
CharsOf(s) == {Ch(s, i) : i \in 1..Len(s)}
IndexOf(c, s) == CHOOSE i \in 1..Len(s) : Ch(s, i) = c

LowerSet == CharsOf(LowerLetters)
UpperSet == CharsOf(UpperLetters)
DigitSet == CharsOf(DigitChars)
SpaceSet == CharsOf(SpaceChars)
ToLower == [c \in UpperSet |-> Ch(LowerLetters, IndexOf(c, UpperLetters))]
ToUpper == [c \in LowerSet |-> Ch(UpperLetters, IndexOf(c, LowerLetters))]

islowerCh(c) == c \in LowerSet
isupperCh(c) == c \in UpperSet
iscasedCh(c) == islowerCh(c) \/ isupperCh(c)
isdigitCh(c) == c \in DigitSet
isalnumCh(c) == iscasedCh(c) \/ isdigitCh(c)
isspaceCh(c) == c \in SpaceSet

lowerCh(c) == IF isupperCh(c) THEN ToLower[c] ELSE c
upperCh(c) == IF islowerCh(c) THEN ToUpper[c] ELSE c

RECURSIVE lower(_)
lower(s) == IF s = "" THEN "" ELSE lowerCh(Head(s)) \o lower(Tail(s))

RECURSIVE upper(_)
upper(s) == IF s = "" THEN "" ELSE upperCh(Head(s)) \o upper(Tail(s))

\* str.isupper: at least one cased character and no lower-case one
isupper(s) ==
    /\ \E i \in 1..Len(s) : isupperCh(Ch(s, i))
    /\ \A i \in 1..Len(s) : ~islowerCh(Ch(s, i))

\* str.isdigit: non-empty and digits only
isdigit(s) == s # "" /\ \A i \in 1..Len(s) : isdigitCh(Ch(s, i))

RECURSIVE lstrip(_)
lstrip(s) == IF s # "" /\ isspaceCh(Head(s)) THEN lstrip(Tail(s)) ELSE s

RECURSIVE rstrip(_)
rstrip(s) ==
    IF s # "" /\ isspaceCh(Ch(s, Len(s))) THEN rstrip(SubSeq(s, 1, Len(s) - 1)) ELSE s

strip(s) == rstrip(lstrip(s))

endswith(s, suffix) ==
    Len(suffix) <= Len(s) /\ SubSeq(s, Len(s) - Len(suffix) + 1, Len(s)) = suffix

startswith(s, prefix) == Len(prefix) <= Len(s) /\ SubSeq(s, 1, Len(prefix)) = prefix

\* str.title: a cased character is upper-cased when the character before it is
\* not cased (or there is none) and lower-cased otherwise
RECURSIVE titleFrom(_, _)
titleFrom(s, previous_is_cased) ==
    IF s = "" THEN ""
    ELSE LET c == Head(s) IN
         IF iscasedCh(c)
         THEN (IF previous_is_cased THEN lowerCh(c) ELSE upperCh(c))
                  \o titleFrom(Tail(s), TRUE)
         ELSE c \o titleFrom(Tail(s), FALSE)

title(s) == titleFrom(s, FALSE)

\* all strings over an alphabet (a set of characters) of length exactly / at most n
RECURSIVE StringsOfLen(_, _)
StringsOfLen(alphabet, n) ==
    IF n = 0 THEN {""}
    ELSE {s \o c : s \in StringsOfLen(alphabet, n - 1), c \in alphabet}

StringsUpTo(alphabet, n) == UNION {StringsOfLen(alphabet, k) : k \in 0..n}

\* all sequences over a set of length at most n
RECURSIVE SeqsOfLen(_, _)
SeqsOfLen(S, n) ==
    IF n = 0 THEN {<<>>}
    ELSE {Append(q, x) : q \in SeqsOfLen(S, n - 1), x \in S}

SeqsUpTo(S, n) == UNION {SeqsOfLen(S, k) : k \in 0..n}

\* Optional[...]: None is the empty sequence, a value v is <<v>>
None == <<>>
Some(v) == <<v>>

(***************************************************************************)
(* Tables of the three scripts.                                            *)
(***************************************************************************)
\* TagNormalizer.ACRONYMS
ACRONYMS ==
    {"ai", "aks", "api", "ar", "aws", "cd", "cdn", "ceo", "cfo", "ci", "cicd", "cio", "cli", 
     "cpu", "crm", "csrf", "css", "csv", "cto", "ddos", "devops", "dns", "docx", "eks", "erp", 
     "faq", "gcp", "gif", "gke", "gpu", "graphql", "grpc", "gui", "hdd", "html", "http", 
     "https", "iaas", "ide", "ios", "iot", "ip", "jpg", "js", "json", "jwt", "kpi", "linux", 
     "llm", "macos", "ml", "mlops", "mvp", "nft", "nosql", "os", "paas", "pdf", "png", "pptx", 
     "qa", "qc", "ram", "rest", "roi", "rss", "saas", "sdk", "sem", "seo", "sla", "soap", 
     "sql", "ssd", "ssh", "ssl", "svg", "tcp", "tls", "tui", "ui", "unix", "url", "ux", "vpn", 
     "vr", "xlsx", "xml", "xss", "yaml"}
\* the acronyms of TagAnalyzer.choose_canonical_form
acronyms ==
    {"ai", "api", "ar", "aws", "ceo", "css", "cto", "dns", "gcp", "html", "http", "https", 
     "iot", "ip", "js", "json", "llm", "ml", "nft", "paas", "rest", "saas", "soap", "sql", 
     "ssh", "ssl", "tcp", "tls", "ui", "url", "ux", "vr", "xml"}
\* JunkTagRemover.JUNK_WORDS as shipped (the class attribute before any custom file)
SHIPPED_JUNK_WORDS ==
    {"0", "1", "2", "3", "4", "5", "6", "7", "8", "9", "a", "able", "about", "above", "after", 
     "afternoon", "again", "against", "air", "all", "an", "and", "any", "area", "as", "ask", 
     "at", "avoid", "b", "back", "bad", "because", "before", "begin", "believe", "below", 
     "best", "better", "between", "big", "both", "bring", "but", "by", "c", "call", "case", 
     "child", "children", "click", "click here", "come", "comment", "d", "day", "delete", 
     "different", "down", "during", "e", "each", "early", "earth", "evening", "every", "eye", 
     "f", "fact", "feel", "few", "find", "fire", "follow", "for", "form", "from", "g", "get", 
     "give", "go", "good", "great", "group", "h", "hand", "happen", "he", "head", "hear", 
     "help", "high", "home", "house", "how", "i", "if", "important", "in", "include", "into", 
     "it", "item", "j", "k", "keep", "kind", "l", "land", "large", "last", "leave", "left", 
     "less", "let", "level", "like", "little", "live", "log in", "login", "logout", "long", 
     "lose", "low", "m", "make", "man", "many", "meet", "men", "menu", "month", "moon", 
     "more", "morning", "move", "much", "n", "new", "next", "night", "number", "o", "of", 
     "off", "old", "on", "or", "other", "out", "over", "own", "p", "part", "pay", "person", 
     "place", "point", "previous", "problem", "program", "public", "q", "question", "r", 
     "read", "right", "room", "run", "s", "same", "save", "sea", "see", "seem", "service", 
     "share", "she", "short", "show", "side", "sign", "sign in", "sign up", "signup", "sit", 
     "small", "some", "sort", "stand", "stuff", "subscribe", "sun", "sure", "t", "take", 
     "tell", "that", "the", "their", "them", "these", "they", "thing", "this", "those", 
     "through", "time", "to", "try", "type", "u", "under", "until", "up", "use", "v", "view", 
     "w", "water", "way", "we", "week", "what", "when", "where", "which", "while", "who", 
     "why", "with", "woman", "women", "work", "worse", "worst", "write", "x", "y", "year", 
     "you", "young", "z"}
\* JunkTagRemover.VALID_ACRONYMS
VALID_ACRONYMS ==
    {"ai", "api", "aws", "career", "cd", "cdn", "ceo", "cfo", "ci", "coding", "crm", "css", 
     "cto", "dm", "dns", "docker", "erp", "feed", "gcp", "hr", "html", "http", "iaas", "ios", 
     "iot", "ip", "js", "json", "llm", "ml", "nlp", "ocr", "paas", "pdf", "people", "play", 
     "pm", "pr", "qa", "rest", "saas", "search", "sem", "seo", "server", "soap", "sql", "ssh", 
     "ssl", "system", "tcp", "tls", "ui", "url", "user", "ux", "vpn", "xml"}
generic_suffixes == {"ing", "ed", "er", "est", "ly"}

\* TagAnalyzer.find_semantic_overlaps: canonical label, synonym strings
semantic_groups ==
    <<<<"AI", <<"ai", "artificial intelligence", "machine learning", "ml", "llm", "llms", "deep learning">> >>,
      <<"Technology", <<"technology", "tech", "technical">> >>,
      <<"Product", <<"product", "products">> >>,
      <<"Business", <<"business", "company", "enterprise">> >>,
      <<"Design", <<"design", "designer", "designers">> >>,
      <<"Development", <<"development", "developer", "dev", "developers">> >>,
      <<"Data", <<"data", "database", "databases", "analytics">> >>,
      <<"Security", <<"security", "cybersecurity", "privacy">> >>,
      <<"Internet", <<"network", "networking", "internet">> >>,
      <<"Software", <<"software", "application", "app", "applications", "apps">> >>,
      <<"API", <<"api", "apis">> >>,
      <<"Web", <<"web", "website", "websites">> >>,
      <<"Mobile", <<"mobile", "ios", "android">> >>>>

(***************************************************************************)
(* Case rules.                                                             *)
(***************************************************************************)
\* a case rule that upper-cases word starts and leaves the other letters alone
normalize_case_KeepRest(tag) ==
    IF lower(tag) \in ACRONYMS THEN upper(lower(tag))
    ELSE IF tag = "" THEN "" ELSE upperCh(Head(tag)) \o Tail(tag)

\* TagNormalizer.normalize_case
normalize_case(tag) ==
    LET tag_lower == lower(tag) IN
    IF tag_lower \in ACRONYMS THEN upper(tag_lower) ELSE title(tag)

\* TagAnalyzer.choose_canonical_form; variants is a non-empty sequence
choose_canonical_form(variants) ==
    LET lower_form == lower(variants[1]) IN
    IF lower_form \in acronyms THEN upper(lower_form) ELSE title(variants[1])

(***************************************************************************)
(* Junk classification.                                                    *)
(***************************************************************************)
\* JunkTagRemover.load_custom_blocklist: the lines of the file, added in turn
custom_words(lines) ==
    {lower(strip(lines[i])) : i \in {j \in 1..Len(lines) :
                                        /\ strip(lines[j]) # ""
                                        /\ ~startswith(strip(lines[j]), "#")}}

\* a classifier that looks at the acronyms before the blocklist
is_junk_tag_AcronymFirst(junk_words, tag_name) ==
    LET lower_name == strip(lower(tag_name)) IN
    IF lower_name \in VALID_ACRONYMS THEN <<FALSE, "valid_acronym">>
    ELSE IF lower_name \in junk_words THEN <<TRUE, "blocklist">>
    ELSE IF Len(lower_name) <= 2 /\ ~isupper(tag_name) THEN <<TRUE, "too_short">>
    ELSE <<FALSE, "">>

\* a classifier whose length rules come before the blocklist
is_junk_tag_LengthFirst(junk_words, tag_name) ==
    LET lower_name == strip(lower(tag_name)) IN
    IF Len(tag_name) = 1 THEN <<TRUE, "single_char">>
    ELSE IF lower_name \in junk_words THEN <<TRUE, "blocklist">>
    ELSE IF lower_name \in VALID_ACRONYMS THEN <<FALSE, "valid_acronym">>
    ELSE IF Len(lower_name) <= 2 /\ ~isupper(tag_name) THEN <<TRUE, "too_short">>
    ELSE <<FALSE, "">>

\* JunkTagRemover.is_junk_tag: <<is_junk, reason>>
\* the lower-cased name is looked up and measured with its surrounding blanks
is_junk_tag_NoStrip(junk_words, tag_name) ==
    LET lower_name == lower(tag_name) IN
    IF lower_name \in junk_words THEN <<TRUE, "blocklist">>
    ELSE IF lower_name \in VALID_ACRONYMS THEN <<FALSE, "valid_acronym">>
    ELSE IF Len(lower_name) <= 2 /\ ~isupper(tag_name) THEN <<TRUE, "too_short">>
    ELSE IF Len(tag_name) = 1 THEN <<TRUE, "single_char">>
    ELSE IF isdigit(tag_name) THEN <<TRUE, "all_digits">>
    ELSE IF ~\E i \in 1..Len(tag_name) : isalnumCh(Ch(tag_name, i))
         THEN <<TRUE, "no_alphanumeric">>
    ELSE IF \E suffix \in generic_suffixes :
                endswith(lower_name, suffix) /\ Len(lower_name) <= 6
         THEN <<TRUE, "generic_suffix">>
    ELSE <<FALSE, "">>

is_junk_tag(junk_words, tag_name) ==
    LET lower_name == strip(lower(tag_name)) IN
    IF lower_name \in junk_words THEN <<TRUE, "blocklist">>
    ELSE IF lower_name \in VALID_ACRONYMS THEN <<FALSE, "valid_acronym">>
    ELSE IF Len(lower_name) <= 2 /\ ~isupper(tag_name) THEN <<TRUE, "too_short">>
    ELSE IF Len(tag_name) = 1 THEN <<TRUE, "single_char">>
    ELSE IF isdigit(tag_name) THEN <<TRUE, "all_digits">>
    ELSE IF ~\E i \in 1..Len(tag_name) : isalnumCh(Ch(tag_name, i))
         THEN <<TRUE, "no_alphanumeric">>
    ELSE IF \E suffix \in generic_suffixes :
                endswith(lower_name, suffix) /\ Len(lower_name) <= 6
         THEN <<TRUE, "generic_suffix">>
    ELSE <<FALSE, "">>

(***************************************************************************)
(* Fuzzy matching: difflib.SequenceMatcher(None, a, b).ratio().            *)
(***************************************************************************)
\* length of the common run of a from i and b from j
RECURSIVE RunLen(_, _, _, _)
RunLen(a, b, i, j) ==
    IF i > Len(a) \/ j > Len(b) THEN 0
    ELSE IF Ch(a, i) # Ch(b, j) THEN 0
    ELSE 1 + RunLen(a, b, i + 1, j + 1)

\* find_longest_match: the longest block, the earliest in a, then the earliest in b
find_longest_match(a, b) ==
    LET blocks == {<<i, j, RunLen(a, b, i, j)>> : i \in 1..Len(a), j \in 1..Len(b)}
        kmax == CHOOSE k \in {x[3] : x \in blocks} : \A x \in blocks : x[3] <= k
        longest == {x \in blocks : x[3] = kmax}
        imin == CHOOSE i \in {x[1] : x \in longest} : \A x \in longest : i <= x[1]
        first == {x \in longest : x[1] = imin}
    IN  CHOOSE x \in first : \A y \in first : x[2] <= y[2]

\* the number of matched characters: the longest block, then both sides of it
\* (the block m is bound once, as the element of a singleton)
RECURSIVE matching_size(_, _)
matching_size(a, b) ==
    IF a = "" \/ b = "" THEN 0
    ELSE CHOOSE n \in
            {IF m[3] = 0 THEN 0
             ELSE m[3] + matching_size(SubSeq(a, 1, m[1] - 1), SubSeq(b, 1, m[2] - 1))
                       + matching_size(SubSeq(a, m[1] + m[3], Len(a)),
                                       SubSeq(b, m[2] + m[3], Len(b)))
                : m \in {find_longest_match(a, b)}} : TRUE

\* ratio() >= threshold, the threshold a fraction <<num, den>>:
\* ratio is 2.0 * matches / (len(a) + len(b)), and 1.0 for two empty strings
\* matching_size, computed once for the lower-cased names of the stores below
MemoNames == {"react", "reacts", "reactsx", "xyz"}
MemoMatchingSize == [a \in MemoNames, b \in MemoNames |-> matching_size(a, b)]
matches(a, b) ==
    IF a \in MemoNames /\ b \in MemoNames THEN MemoMatchingSize[a, b]
    ELSE matching_size(a, b)

ratio_at_least(a, b, threshold) ==
    IF Len(a) + Len(b) = 0 THEN threshold[2] >= threshold[1]
    ELSE 2 * matches(a, b) * threshold[2] >= threshold[1] * (Len(a) + Len(b))

\* the element of existing_tags at index i qualifies for tag
Qualifies(tag, existing_name, threshold) ==
    \/ lower(tag) = lower(existing_name)
    \/ ratio_at_least(lower(tag), lower(existing_name), threshold)

\* a matcher that looks for an exact match in the whole list first
find_similar_tag_ExactFirst(tag, existing_tags, threshold) ==
    LET exact == {i \in 1..Len(existing_tags) : lower(tag) = lower(existing_tags[i])}
        hits == {i \in 1..Len(existing_tags) : Qualifies(tag, existing_tags[i], threshold)}
        pick == IF exact # {} THEN exact ELSE hits
    IN  IF pick = {} THEN None
        ELSE Some(existing_tags[CHOOSE i \in pick : \A j \in pick : i <= j])

\* a matcher that returns the last qualifying element
find_similar_tag_Last(tag, existing_tags, threshold) ==
    LET hits == {i \in 1..Len(existing_tags) : Qualifies(tag, existing_tags[i], threshold)}
    IN  IF hits = {} THEN None
        ELSE Some(existing_tags[CHOOSE i \in hits : \A j \in hits : i >= j])

\* a matcher that takes the ratio of the names as they are written
find_similar_tag_RawRatio(tag, existing_tags, threshold) ==
    LET hits == {i \in 1..Len(existing_tags) :
                    \/ lower(tag) = lower(existing_tags[i])
                    \/ ratio_at_least(tag, existing_tags[i], threshold)}
    IN  IF hits = {} THEN None
        ELSE Some(existing_tags[CHOOSE i \in hits : \A j \in hits : i <= j])

\* TagNormalizer.find_similar_tag over the names of existing_tags, from index i on
RECURSIVE find_similar_from(_, _, _, _)
find_similar_from(tag, existing_tags, threshold, i) ==
    IF i > Len(existing_tags) THEN None
    ELSE LET existing_name == existing_tags[i]
             existing_lower == lower(existing_name)
             tag_lower == lower(tag)
         IN  IF tag_lower = existing_lower THEN Some(existing_name)
             ELSE IF ratio_at_least(tag_lower, existing_lower, threshold)
                  THEN Some(existing_name)
             ELSE find_similar_from(tag, existing_tags, threshold, i + 1)

find_similar_tag(tag, existing_tags, threshold) ==
    find_similar_from(tag, existing_tags, threshold, 1)

(***************************************************************************)
(* The consolidation planner (TagAnalyzer).  A tag is a record             *)
(* [id, name, links], links being _count.links; a dict is a function.      *)
(***************************************************************************)
EmptyDict == <<>>
DictPut(d, k, v) == [x \in (DOMAIN d) \cup {k} |-> IF x = k THEN v ELSE d[x]]

\* the elements of a sequence of strings, each once, in order of first occurrence
RECURSIVE first_occurrences(_)
first_occurrences(names) ==
    IF names = <<>> THEN <<>>
    ELSE LET rest == first_occurrences(SubSeq(names, 1, Len(names) - 1))
             x == names[Len(names)]
         IN  IF \E i \in 1..Len(rest) : rest[i] = x THEN rest ELSE Append(rest, x)

RECURSIVE named_tags(_)
named_tags(ts) ==
    IF ts = <<>> THEN <<>>
    ELSE IF Head(ts).name # "" THEN <<Head(ts)>> \o named_tags(Tail(ts))
    ELSE named_tags(Tail(ts))

RECURSIVE tags_with_lower(_, _)
tags_with_lower(ts, key) ==
    IF ts = <<>> THEN <<>>
    ELSE IF Head(ts).name # "" /\ lower(Head(ts).name) = key
         THEN <<Head(ts)>> \o tags_with_lower(Tail(ts), key)
    ELSE tags_with_lower(Tail(ts), key)

\* TagAnalyzer.find_case_duplicates: <<lower-cased key, variants>> for every key
\* with more than one variant, the keys in order of first occurrence
find_case_duplicates(ts) ==
    LET named == named_tags(ts)
        keys == first_occurrences([i \in 1..Len(named) |-> lower(named[i].name)])
        groups == [i \in 1..Len(keys) |-> <<keys[i], tags_with_lower(ts, keys[i])>>]
        RECURSIVE dupes(_)
        dupes(i) ==
            IF i > Len(groups) THEN <<>>
            ELSE IF Len(groups[i][2]) > 1 THEN <<groups[i]>> \o dupes(i + 1)
            ELSE dupes(i + 1)
    IN  dupes(1)

\* sorted(variants, key=links, reverse=True): stable, equal keys keep their order
RECURSIVE sorted_by_usage_desc(_)
sorted_by_usage_desc(variants) ==
    IF variants = <<>> THEN <<>>
    ELSE LET acc == sorted_by_usage_desc(SubSeq(variants, 1, Len(variants) - 1))
             x == variants[Len(variants)]
             p == Cardinality({i \in 1..Len(acc) : acc[i].links >= x.links})
         IN  SubSeq(acc, 1, p) \o <<x>> \o SubSeq(acc, p + 1, Len(acc))

\* tag_names_lower[variant]: the last tag name whose lower-cased form is variant
last_name_with_lower(ts, variant) ==
    LET named == named_tags(ts)
        at == {i \in 1..Len(named) : lower(named[i].name) = variant}
    IN  IF at = {} THEN None
        ELSE Some(named[CHOOSE i \in at : \A j \in at : j <= i].name)

\* TagAnalyzer.find_semantic_overlaps: <<canonical, matching_tags>> for every
\* group with more than one matching tag, in table order
find_semantic_overlaps(ts) ==
    LET RECURSIVE matching_tags(_, _)
        matching_tags(variants, i) ==
            IF i > Len(variants) THEN <<>>
            ELSE last_name_with_lower(ts, variants[i]) \o matching_tags(variants, i + 1)
        RECURSIVE overlaps(_)
        overlaps(g) ==
            IF g > Len(semantic_groups) THEN <<>>
            ELSE LET m == matching_tags(semantic_groups[g][2], 1) IN
                 IF Len(m) > 1 THEN <<<<semantic_groups[g][1], m>>>> \o overlaps(g + 1)
                 ELSE overlaps(g + 1)
    IN  overlaps(1)

\* for name in names: if name != canonical: d[name] = canonical
RECURSIVE map_to_canonical_AllMembers(_, _, _)
RECURSIVE map_to_canonical(_, _, _)
\* every variant becomes a key, the canonical one included
map_to_canonical_AllMembers(d, names, canonical) ==
    IF names = <<>> THEN d
    ELSE map_to_canonical_AllMembers(DictPut(d, Head(names), canonical),
                                     Tail(names), canonical)

map_to_canonical(d, names, canonical) ==
    IF names = <<>> THEN d
    ELSE map_to_canonical(
             IF Head(names) # canonical THEN DictPut(d, Head(names), canonical) ELSE d,
             Tail(names), canonical)

\* step 1 of generate_consolidation_mapping
case_normalizations_of(ts) ==
    LET case_dupes == find_case_duplicates(ts)
        RECURSIVE fold(_, _)
        fold(d, i) ==
            IF i > Len(case_dupes) THEN d
            ELSE LET sorted_variants == sorted_by_usage_desc(case_dupes[i][2])
                     names == [k \in 1..Len(sorted_variants) |-> sorted_variants[k].name]
                     canonical == choose_canonical_form(names)
                 IN  fold(map_to_canonical(d, names, canonical), i + 1)
    IN  fold(EmptyDict, 1)

\* step 2 of generate_consolidation_mapping
semantic_consolidations_of(ts) ==
    LET semantic_overlaps == find_semantic_overlaps(ts)
        RECURSIVE fold(_, _)
        fold(d, i) ==
            IF i > Len(semantic_overlaps) THEN d
            ELSE fold(map_to_canonical(d, semantic_overlaps[i][2], semantic_overlaps[i][1]),
                      i + 1)
    IN  fold(EmptyDict, 1)

\* step 3 without the skip of the names already in a consolidation mapping
tags_to_delete_of_NoSkip(ts, case_n, semantic_c, low_use_threshold, delete_low_use) ==
    LET RECURSIVE scan(_)
        scan(i) ==
            IF i > Len(ts) THEN <<>>
            ELSE IF ts[i].links < low_use_threshold
                 THEN <<[name |-> ts[i].name, id |-> ts[i].id, usage |-> ts[i].links]>>
                          \o scan(i + 1)
            ELSE scan(i + 1)
    IN  IF delete_low_use THEN scan(1) ELSE <<>>

\* step 3 of generate_consolidation_mapping
tags_to_delete_of(ts, case_n, semantic_c, low_use_threshold, delete_low_use) ==
    LET RECURSIVE scan(_)
        scan(i) ==
            IF i > Len(ts) THEN <<>>
            ELSE LET tag_name == ts[i].name
                     usage == ts[i].links
                 IN  IF tag_name \in DOMAIN case_n \/ tag_name \in DOMAIN semantic_c
                     THEN scan(i + 1)
                     ELSE IF usage < low_use_threshold
                          THEN <<[name |-> tag_name, id |-> ts[i].id, usage |-> usage]>>
                                   \o scan(i + 1)
                     ELSE scan(i + 1)
    IN  IF delete_low_use THEN scan(1) ELSE <<>>

\* TagAnalyzer.generate_consolidation_mapping
generate_consolidation_mapping(ts, low_use_threshold, delete_low_use) ==
    LET case_n == case_normalizations_of(ts)
        semantic_c == semantic_consolidations_of(ts)
        to_delete == tags_to_delete_of(ts, case_n, semantic_c,
                                       low_use_threshold, delete_low_use)
    IN  [case_normalizations |-> case_n,
         semantic_consolidations |-> semantic_c,
         tags_to_delete |-> to_delete,
         statistics |->
            [total_case_normalizations |-> Cardinality(DOMAIN case_n),
             total_semantic_consolidations |-> Cardinality(DOMAIN semantic_c),
             total_deletions |-> Len(to_delete),
             estimated_final_tag_count |->
                 Len(ts) - Cardinality(DOMAIN case_n)
                         - Cardinality(DOMAIN semantic_c) - Len(to_delete)]]

(***************************************************************************)
(* The normalizer (TagNormalizer): the pure part.  A tag object is a       *)
(* record with a name and, when the store knows it, an id (and a _count    *)
(* in the answer of GET /tags).                                            *)
(***************************************************************************)
\* --similarity-threshold and --lookback defaults
similarity_threshold == <<85, 100>>
lookback_minutes == 15

\* existing.get('name', '') of every element
names_of(tag_objects) == [i \in 1..Len(tag_objects) |-> tag_objects[i].name]

\* TagNormalizer.normalize_tag: the name, and which counter it bumps
normalize_tag(tag, existing_tags, threshold) ==
    LET similar == find_similar_tag(tag, names_of(existing_tags), threshold) IN
    IF similar # None /\ similar[1] # ""
    THEN [name |-> similar[1], fuzzy |-> 1, normalized |-> 0]
    ELSE LET normalized == normalize_case(tag) IN
         [name |-> normalized, fuzzy |-> 0,
          normalized |-> IF normalized # tag THEN 1 ELSE 0]

\* [t.get('name', '') for t in current_tags if t.get('name')]
RECURSIVE truthy_names(_)
truthy_names(ts) ==
    IF ts = <<>> THEN <<>>
    ELSE IF Head(ts).name # "" THEN <<Head(ts).name>> \o truthy_names(Tail(ts))
    ELSE truthy_names(Tail(ts))

\* how often normalize_tag bumped the counter f over the outcomes each[i..]
RECURSIVE bumps(_, _, _)
bumps(each, f, i) == IF i > Len(each) THEN 0 ELSE each[i][f] + bumps(each, f, i + 1)

\* a normalize_link_tags that appends every normalized name
normalize_link_tags_NoDedup(lnk, existing_tags, threshold) ==
    LET tag_names == truthy_names(lnk.tags)
        each == [i \in 1..Len(tag_names) |->
                    normalize_tag(tag_names[i], existing_tags, threshold)]
        changed == \E i \in 1..Len(tag_names) : each[i].name # tag_names[i]
    IN  [result |-> IF tag_names = <<>> \/ ~changed THEN None
                    ELSE Some(names_of(each)),
         fuzzy |-> bumps(each, "fuzzy", 1),
         normalized |-> bumps(each, "normalized", 1)]

\* TagNormalizer.normalize_link_tags: the new name list (None when nothing
\* changed) and the increments of tags_fuzzy_matched and tags_normalized
normalize_link_tags(lnk, existing_tags, threshold) ==
    LET tag_names == truthy_names(lnk.tags)
        each == [i \in 1..Len(tag_names) |->
                    normalize_tag(tag_names[i], existing_tags, threshold)]
        changed == \E i \in 1..Len(tag_names) : each[i].name # tag_names[i]
    IN  [result |-> IF tag_names = <<>> \/ ~changed THEN None
                    ELSE Some(first_occurrences(names_of(each))),
         fuzzy |-> bumps(each, "fuzzy", 1),
         normalized |-> bumps(each, "normalized", 1)]

\* tag objects that reuse the listed tag as it is, _count included
new_tags_of_KeepCount(new_tag_names, existing_tags) ==
    [i \in 1..Len(new_tag_names) |->
        LET at == {j \in 1..Len(existing_tags) : existing_tags[j].name = new_tag_names[i]} IN
        IF at = {} THEN [name |-> new_tag_names[i]]
        ELSE existing_tags[CHOOSE j \in at : \A k \in at : k <= j]]

\* update_link_tags, the tag objects of the body: the tag of existing_tags
\* with that name, without its _count, or the bare name
new_tags_of(new_tag_names, existing_tags) ==
    LET tag_map(name) ==
            LET at == {i \in 1..Len(existing_tags) : existing_tags[i].name = name}
                tag == existing_tags[CHOOSE i \in at : \A j \in at : j <= i]
            IN  IF at = {} THEN None
                ELSE Some([k \in (DOMAIN tag) \ {"_count"} |-> tag[k]])
    IN  [i \in 1..Len(new_tag_names) |->
            IF tag_map(new_tag_names[i]) # None THEN tag_map(new_tag_names[i])[1]
            ELSE [name |-> new_tag_names[i]]]

\* an update_link_tags that returns before any request, dry run or not
update_link_tags_entry_AlwaysDry(dry) == "return_true"

\* update_link_tags, its first lines: a dry run returns True at once
update_link_tags_entry(dry) == IF dry THEN "return_true" ELSE "fetch_link"

\* fetch_recent_links, the test of one link: updatedAt is missing, garbled,
\* a naive ISO time, or one with Z or an offset (then the comparison with the
\* naive cutoff raises, and the link is skipped)
is_recent(updated_at, lookback) ==
    CASE updated_at.form = "missing" -> FALSE
      [] updated_at.form = "garbled" -> FALSE
      [] updated_at.form \in {"Z", "offset"} -> FALSE
      [] updated_at.form = "naive" -> updated_at.age <= lookback

RECURSIVE filter_recent(_, _)
filter_recent(links, lookback) ==
    IF links = <<>> THEN <<>>
    ELSE IF is_recent(Head(links).updatedAt, lookback)
         THEN <<Head(links)>> \o filter_recent(Tail(links), lookback)
    ELSE filter_recent(Tail(links), lookback)

(***************************************************************************)
(* Bounds and input sets of the pure functions.                            *)
(***************************************************************************)
MaxCaseLen == 3
MaxJunkLen == 2
MaxCustomLines == 2
MaxExisting == 3
MaxPlanTags == 3
MaxLinks == 2
MaxStoreTags == 2
MaxRerunTags == 3
MaxRuns == 2
MaxOther == 1
MaxCalls == 2
MaxCallNames == 2
MaxRewriteTags == 1
MaxRemoverTags == 3

CaseAlphabet == {"a", "A", "i", "I", "1", "-", " "}
CaseStrings == StringsUpTo(CaseAlphabet, MaxCaseLen)
\* names with letters outside the alphabet: acronyms of the normalizer's table
\* only, a word with an apostrophe, a word with a digit inside
CaseSamples == {"ci", "Ci", "QA", "iOS", "it's", "DON'T", "web3d", "e-mail"}
CaseInputs == CaseStrings \cup CaseSamples
\* the other variants handed to choose_canonical_form after the first
OtherVariants == {<<>>, <<"zz">>, <<"AI">>}

JunkAlphabet == {"a", "A", "i", "I", "7", "-", " "}
JunkSamples ==
    {"docker", "Docker", "ml", " ai ", "AI ", "Doing", "faster", "Python", "ing",
     "42", "--", "the", "Click Here", "quickly", "123", "---", " going "}
JunkInputs == StringsUpTo(JunkAlphabet, MaxJunkLen) \cup JunkSamples
CustomLines == {"AI", "# ml", " Docker "}
CustomFiles == SeqsUpTo(CustomLines, MaxCustomLines)

FuzzyNames == {"music", "Music", "musik", "muzik", "musics"}
\* --similarity-threshold: the default 0.85, and the 0.8 of find_semantic_overlaps
Thresholds == {<<85, 100>>, <<80, 100>>}

PlanNames == {"tech", "Tech", "technology", "ai", "AI", "xyz"}
UsageValues == {0, 2}
\* --low-use-threshold: 0, 1 and the default 3
LowUseThresholds == {0, 1, 3}
\* the tag lists GET /tags may return: distinct names, ids in list order
PlanTagLists ==
    {[i \in 1..Len(names) |-> [id |-> i, name |-> names[i], links |-> usages[i]]] :
        <<names, usages>> \in
            UNION {{q \in SeqsOfLen(PlanNames, n) :
                        \A i, j \in 1..n : i # j => q[i] # q[j]}
                   \X SeqsOfLen(UsageValues, n) : n \in 0..MaxPlanTags}}

CaseIdle == case_in = "" /\ case_out = None
PlanIdle == an_pc = "idle" /\ tags = <<>> /\ mapping = None

LinkIds == 1..MaxLinks
NormNames == {"react", "Reacts", "Reactsx"}
OtherNames == NormNames \cup {"xyz"}
RemoverNames == {"a", "AI", "123", "react"}
RemoverUsages == {0, 2}
MinUsages == {0, 1, 2}
ZeroStats ==
    [links_processed |-> 0, links_updated |-> 0, tags_normalized |-> 0,
     tags_fuzzy_matched |-> 0, errors |-> 0]
NoCache == [state |-> "none", tags |-> <<>>]
ZeroRemoverStats ==
    [tags_analyzed |-> 0, junk_tags_found |-> 0, tags_deleted |-> 0,
     links_updated |-> 0, errors |-> 0]
NoAnalysis == [junk_tags |-> <<>>, good_tags |-> <<>>, total |-> 0]
RemoverIdle ==
    /\ rm_pc = "idle"
    /\ analyze = FALSE
    /\ remover_dry_run = FALSE
    /\ min_usage = 0
    /\ tag_store = <<>>
    /\ analysis = NoAnalysis
    /\ junk_tags_sorted = <<>>
    /\ rm_idx = 0
    /\ remover_stats = ZeroRemoverStats
    /\ deletes = <<>>

NoPending == [l \in LinkIds |-> [added |-> {}, removed |-> {}, other |-> None]]
NormIdle ==
    /\ store_tags = <<>>
    /\ store_links = <<>>
    /\ caller = "idle"
    /\ dry_run = FALSE
    /\ pc = "idle"
    /\ run = 0
    /\ existing_tags_cache = NoCache
    /\ recent_links = <<>>
    /\ idx = 0
    /\ call = None
    /\ link = None
    /\ stats = ZeroStats
    /\ puts = <<>>
    /\ returns = <<>>
    /\ other_left = 0
    /\ pending = <<>>
    /\ overwritten = {}
\* JunkTagRemover.JUNK_WORDS: the shipped words and those load_custom_blocklist added
JUNK_WORDS == SHIPPED_JUNK_WORDS \cup junk_added

JunkIdle ==
    /\ junk_added = {}
    /\ junk_pc = "idle"
    /\ junk_in = ""
    /\ junk_out = None
FuzzyIdle ==
    /\ fz_tag = ""
    /\ fz_existing = <<>>
    /\ fz_threshold = <<85, 100>>
    /\ fz_out = [called |-> FALSE, result |-> None]
    /\ fz_link_tags = <<>>

(***************************************************************************)
(* SpecCase: the two case rules applied to one string.                     *)
(***************************************************************************)
InitCase ==
    /\ case_in \in CaseInputs
    /\ case_out = None
    /\ JunkIdle /\ FuzzyIdle /\ PlanIdle /\ NormIdle /\ RemoverIdle

NormalizeCase ==
    /\ case_out = None
    /\ case_out' = Some([fn |-> "normalize_case",
                         variants |-> <<case_in>>,
                         result |-> normalize_case(case_in)])
    /\ UNCHANGED <<case_in, junkVars, fuzzyVars, planVars, normVars, removerVars>>

ChooseCanonicalForm ==
    /\ case_out = None
    /\ \E rest \in OtherVariants :
          case_out' = Some([fn |-> "choose_canonical_form",
                            variants |-> <<case_in>> \o rest,
                            result |-> choose_canonical_form(<<case_in>> \o rest)])
    /\ UNCHANGED <<case_in, junkVars, fuzzyVars, planVars, normVars, removerVars>>

NextCase == NormalizeCase \/ ChooseCanonicalForm

SpecCase == InitCase /\ [][NextCase]_vars

(***************************************************************************)
(* SpecJunk: a JunkTagRemover is built (with or without a custom           *)
(* blocklist file) and classifies tag names.                               *)
(***************************************************************************)
InitJunk ==
    /\ junk_added = {}
    /\ junk_pc = "new"
    /\ junk_in = ""
    /\ junk_out = None
    /\ CaseIdle /\ FuzzyIdle /\ PlanIdle /\ NormIdle /\ RemoverIdle

\* JunkTagRemover.__init__ with no custom_blocklist
JunkInit ==
    /\ junk_pc = "new"
    /\ junk_pc' = "ready"
    /\ UNCHANGED <<junk_added, junk_in, junk_out, caseVars, fuzzyVars, planVars, normVars, removerVars>>

\* JunkTagRemover.__init__ with a custom_blocklist file: load_custom_blocklist
LoadCustomBlocklist ==
    /\ junk_pc = "new"
    /\ \E lines \in CustomFiles : junk_added' = junk_added \cup custom_words(lines)
    /\ junk_pc' = "ready"
    /\ UNCHANGED <<junk_in, junk_out, caseVars, fuzzyVars, planVars, normVars, removerVars>>

\* one call of is_junk_tag
IsJunkTag ==
    /\ junk_pc = "ready"
    /\ \E tag_name \in JunkInputs :
          /\ junk_in' = tag_name
          /\ junk_out' = Some(is_junk_tag(JUNK_WORDS, tag_name))
    /\ UNCHANGED <<junk_added, junk_pc, caseVars, fuzzyVars, planVars, normVars, removerVars>>

NextJunk == JunkInit \/ LoadCustomBlocklist \/ IsJunkTag

SpecJunk == InitJunk /\ [][NextJunk]_vars

(***************************************************************************)
(* SpecFuzzy: one call of find_similar_tag.                                *)
(***************************************************************************)
InitFuzzy ==
    /\ fz_tag \in FuzzyNames
    /\ fz_existing \in SeqsUpTo(FuzzyNames \cup {""}, MaxExisting)
    /\ fz_threshold \in Thresholds
    /\ fz_out = [called |-> FALSE, result |-> None]
    /\ fz_link_tags = <<>>
    /\ CaseIdle /\ JunkIdle /\ PlanIdle /\ NormIdle /\ RemoverIdle

FindSimilarTag ==
    /\ ~fz_out.called
    /\ fz_out' = [called |-> TRUE,
                  result |-> find_similar_tag(fz_tag, fz_existing, fz_threshold)]
    /\ UNCHANGED <<fz_tag, fz_existing, fz_threshold, fz_link_tags, caseVars, junkVars, planVars,
                   normVars, removerVars>>

NextFuzzy == FindSimilarTag

SpecFuzzy == InitFuzzy /\ [][NextFuzzy]_vars

(***************************************************************************)
(* SpecPlan: the analyzer fetches the tags and generates one plan.         *)
(***************************************************************************)
InitPlan ==
    /\ an_pc = "new"
    /\ tags = <<>>
    /\ mapping = None
    /\ CaseIdle /\ JunkIdle /\ FuzzyIdle /\ NormIdle /\ RemoverIdle

\* TagAnalyzer.fetch_tags: the body is a bare array, an envelope with a
\* response field, or something else (then no tags)
FetchTags ==
    /\ an_pc = "new"
    /\ \E ts \in PlanTagLists, shape \in {"list", "envelope", "other"} :
          tags' = IF shape = "other" THEN <<>> ELSE ts
    /\ an_pc' = "fetched"
    /\ UNCHANGED <<mapping, caseVars, junkVars, fuzzyVars, normVars, removerVars>>

\* TagAnalyzer.fetch_tags: the request fails, sys.exit(1)
FetchTagsFails ==
    /\ an_pc = "new"
    /\ an_pc' = "exited"
    /\ UNCHANGED <<tags, mapping, caseVars, junkVars, fuzzyVars, normVars, removerVars>>

GenerateConsolidationMapping ==
    /\ an_pc = "fetched"
    /\ \E low_use_threshold \in LowUseThresholds, delete_low_use \in BOOLEAN :
          mapping' = Some([low_use_threshold |-> low_use_threshold,
                           delete_low_use |-> delete_low_use,
                           plan |-> generate_consolidation_mapping(
                                        tags, low_use_threshold, delete_low_use)])
    /\ an_pc' = "planned"
    /\ UNCHANGED <<tags, caseVars, junkVars, fuzzyVars, normVars, removerVars>>

NextPlan == FetchTags \/ FetchTagsFails \/ GenerateConsolidationMapping

SpecPlan == InitPlan /\ [][NextPlan]_vars

(***************************************************************************)
(* The bookmark store behind the API, and what it answers.  A tag's id is  *)
(* its position in store_tags; a link holds a set of tag names, one other  *)
(* field and its updatedAt.                                                *)
(***************************************************************************)
Range(f) == {f[i] : i \in DOMAIN f}

\* GET /tags
tag_records ==
    [i \in 1..Len(store_tags) |->
        [id |-> i, name |-> store_tags[i],
         _count |-> Cardinality({l \in LinkIds : store_tags[i] \in store_links[l].tags})]]

\* GET /links/{id}, and one element of GET /links
link_record(l) ==
    LET RECURSIVE from(_)
        from(i) ==
            IF i > Len(store_tags) THEN <<>>
            ELSE IF store_tags[i] \in store_links[l].tags
                 THEN <<[id |-> i, name |-> store_tags[i]]>> \o from(i + 1)
            ELSE from(i + 1)
    IN  [id |-> l, tags |-> from(1), other |-> store_links[l].other,
         updatedAt |-> store_links[l].updatedAt]

link_listing == [l \in LinkIds |-> link_record(l)]

\* PUT /links/{id} replaces the whole record; a tag name the store does not
\* know is created
RECURSIVE unknown_names(_, _)
unknown_names(names, known) ==
    IF names = <<>> THEN <<>>
    ELSE IF Head(names) \in known THEN unknown_names(Tail(names), known)
    ELSE <<Head(names)>> \o unknown_names(Tail(names), known \cup {Head(names)})

tags_after_put(body) == store_tags \o unknown_names(names_of(body.tags), Range(store_tags))

links_after_put(l, body) ==
    [store_links EXCEPT ![l] = [tags |-> Range(names_of(body.tags)),
                                other |-> body.other,
                                updatedAt |-> [@.updatedAt EXCEPT !.age = 0]]]

\* the stores a run can meet: distinct tag names, links tagged with them
StoreTagLists(n) == {ts \in SeqsUpTo(NormNames, n) : \A i, j \in 1..Len(ts) : ts[i] = ts[j] => i = j}
now == [form |-> "naive", age |-> 0]
StoreLinks(ts, other_of) ==
    {[l \in LinkIds |-> [tags |-> t[l], other |-> other_of[l], updatedAt |-> now]] :
        t \in [LinkIds -> SUBSET Range(ts)]}

(***************************************************************************)
(* The normalizer process.                                                 *)
(***************************************************************************)
\* existing_tags, the local of process_recent_links
existing_tags == existing_tags_cache.tags

InitProcess(who, first_pc) ==
    /\ caller = who
    /\ pc = first_pc
    /\ run = 1
    /\ recent_links = <<>>
    /\ idx = 0
    /\ call = None
    /\ link = None
    /\ stats = ZeroStats
    /\ puts = <<>>
    /\ returns = <<>>
    /\ overwritten = {}
    /\ pending = NoPending

pureVars == <<caseVars, junkVars, fuzzyVars, planVars>>

\* fetch_all_existing_tags: a bare array or an envelope with a response field
FetchAllExistingTags ==
    /\ pc = "start"
    /\ \E shape \in {"list", "envelope"} :
          existing_tags_cache' = [state |-> "list", tags |-> tag_records]
    /\ pc' = "fetch_links"
    /\ UNCHANGED <<storeVars, caller, dry_run, run, recent_links, idx, call, link,
                   stats, puts, returns, otherVars, pureVars, removerVars>>

\* fetch_all_existing_tags: the request fails; [] is returned, nothing cached
FetchAllExistingTagsFails ==
    /\ pc = "start"
    /\ existing_tags_cache' = [state |-> "none", tags |-> <<>>]
    /\ pc' = "fetch_links"
    /\ UNCHANGED <<storeVars, caller, dry_run, run, recent_links, idx, call, link,
                   stats, puts, returns, otherVars, pureVars, removerVars>>

\* fetch_all_existing_tags: the body is an object without a response field;
\* the object itself is cached and returned
FetchAllExistingTagsMalformed ==
    /\ pc = "start"
    /\ existing_tags_cache' = [state |-> "dict", tags |-> <<>>]
    /\ pc' = "fetch_links"
    /\ UNCHANGED <<storeVars, caller, dry_run, run, recent_links, idx, call, link,
                   stats, puts, returns, otherVars, pureVars, removerVars>>

\* fetch_recent_links, then the early return of process_recent_links
FetchRecentLinks ==
    /\ pc = "fetch_links"
    /\ recent_links' = filter_recent(link_listing, lookback_minutes)
    /\ idx' = 1
    /\ pc' = IF recent_links' = <<>> THEN "done" ELSE "loop"
    /\ UNCHANGED <<storeVars, caller, dry_run, run, existing_tags_cache, call, link,
                   stats, puts, returns, otherVars, pureVars, removerVars>>

\* fetch_recent_links: the request fails; no recent links
FetchRecentLinksFails ==
    /\ pc = "fetch_links"
    /\ recent_links' = <<>>
    /\ idx' = 1
    /\ pc' = "done"
    /\ UNCHANGED <<storeVars, caller, dry_run, run, existing_tags_cache, call, link,
                   stats, puts, returns, otherVars, pureVars, removerVars>>

\* fetch_recent_links: the body is an object without a response field; the
\* loop over its keys raises AttributeError, which nothing catches
FetchRecentLinksMalformed ==
    /\ pc = "fetch_links"
    /\ pc' = "crashed"
    /\ UNCHANGED <<storeVars, caller, dry_run, run, existing_tags_cache, recent_links,
                   idx, call, link, stats, puts, returns, otherVars, pureVars, removerVars>>

\* update_link_tags returns to a loop that a failure ends
Return_StopsAtFailure(c, success) ==
    /\ returns' = Append(returns, [link_id |-> c.link_id,
                                   new_tag_names |-> c.new_tag_names,
                                   result |-> success])
    /\ call' = None
    /\ link' = None
    /\ IF caller = "process_recent_links"
       THEN /\ stats' = IF success THEN [stats EXCEPT !.links_updated = @ + 1]
                        ELSE [stats EXCEPT !.errors = @ + 1]
            /\ idx' = idx + 1
            /\ pc' = IF ~success \/ idx + 1 > Len(recent_links) THEN "done" ELSE "loop"
       ELSE /\ UNCHANGED <<stats, idx>>
            /\ pc' = "idle"

\* update_link_tags returns to its caller
Return(c, success) ==
    /\ returns' = Append(returns, [link_id |-> c.link_id,
                                   new_tag_names |-> c.new_tag_names,
                                   result |-> success])
    /\ call' = None
    /\ link' = None
    /\ IF caller = "process_recent_links"
       THEN /\ stats' = IF success THEN [stats EXCEPT !.links_updated = @ + 1]
                        ELSE [stats EXCEPT !.errors = @ + 1]
            /\ idx' = idx + 1
            /\ pc' = IF idx + 1 > Len(recent_links) THEN "done" ELSE "loop"
       ELSE /\ UNCHANGED <<stats, idx>>
            /\ pc' = "idle"

\* process_recent_links, one turn of the loop up to the call of
\* update_link_tags
ProcessLink ==
    /\ pc = "loop"
    /\ LET lnk == recent_links[idx]
           counted == [stats EXCEPT !.links_processed = @ + 1]
       IN  IF existing_tags_cache.state = "dict" /\ \E i \in 1..Len(lnk.tags) : lnk.tags[i].name # ""
           THEN \* find_similar_tag iterates the keys of the object: AttributeError
                /\ stats' = counted
                /\ pc' = "crashed"
                /\ UNCHANGED <<idx, call, link, returns>>
           ELSE LET r == normalize_link_tags(lnk, existing_tags, similarity_threshold)
                    after == [counted EXCEPT !.tags_fuzzy_matched = @ + r.fuzzy,
                                             !.tags_normalized = @ + r.normalized]
                    c == [link_id |-> lnk.id, new_tag_names |-> r.result[1],
                          existing_tags |-> existing_tags]
                IN  IF r.result = None \/ r.result = Some(<<>>)
                    THEN /\ stats' = after
                         /\ idx' = idx + 1
                         /\ pc' = IF idx + 1 > Len(recent_links) THEN "done" ELSE "loop"
                         /\ UNCHANGED <<call, link, returns>>
                    ELSE IF update_link_tags_entry(dry_run) = "return_true"
                    THEN /\ returns' = Append(returns, [link_id |-> c.link_id,
                                                        new_tag_names |-> c.new_tag_names,
                                                        result |-> TRUE])
                         /\ stats' = [after EXCEPT !.links_updated = @ + 1]
                         /\ idx' = idx + 1
                         /\ pc' = IF idx + 1 > Len(recent_links) THEN "done" ELSE "loop"
                         /\ UNCHANGED <<call, link>>
                    ELSE /\ stats' = after
                         /\ call' = Some(c)
                         /\ pc' = "fetch_link"
                         /\ UNCHANGED <<idx, link, returns>>
    /\ UNCHANGED <<storeVars, caller, dry_run, run, existing_tags_cache, recent_links,
                   puts, otherVars, pureVars, removerVars>>

\* update_link_tags entered by a caller other than the loop
Enter(l, names) ==
    /\ IF update_link_tags_entry(dry_run) = "return_true"
       THEN /\ returns' = Append(returns, [link_id |-> l, new_tag_names |-> names,
                                           result |-> TRUE])
            /\ UNCHANGED <<call, pc>>
       ELSE /\ call' = Some([link_id |-> l, new_tag_names |-> names,
                             existing_tags |-> existing_tags])
            /\ pc' = "fetch_link"
            /\ UNCHANGED returns
    /\ UNCHANGED <<storeVars, caller, dry_run, run, existing_tags_cache, recent_links,
                   idx, link, stats, puts, otherVars, pureVars, removerVars>>

\* update_link_tags called for some link with some names
CallUpdateLinkTags ==
    /\ pc = "idle"
    /\ caller = "direct"
    /\ returns = <<>>
    /\ \E l \in LinkIds, names \in SeqsUpTo(NormNames, MaxCallNames) : Enter(l, names)

\* update_link_tags called again, for the same link with the same names
CallUpdateLinkTagsAgain ==
    /\ pc = "idle"
    /\ caller = "direct"
    /\ returns # <<>>
    /\ Len(returns) < MaxCalls
    /\ Enter(returns[Len(returns)].link_id, returns[Len(returns)].new_tag_names)

\* fetch_link_by_id answers with the link
FetchLinkById ==
    /\ pc = "fetch_link"
    /\ link' = Some(link_record(call[1].link_id))
    /\ pc' = "put"
    /\ UNCHANGED <<storeVars, caller, dry_run, run, existing_tags_cache, recent_links,
                   idx, call, stats, puts, returns, otherVars, pureVars, removerVars>>

\* fetch_link_by_id fails (None): update_link_tags returns False
FetchLinkByIdFails ==
    /\ pc = "fetch_link"
    /\ Return(call[1], FALSE)
    /\ UNCHANGED <<storeVars, caller, dry_run, run, existing_tags_cache, recent_links,
                   puts, otherVars, pureVars, removerVars>>

\* a body built from the id and the tags alone: the other fields at their defaults
put_body_TagsOnly ==
    [link[1] EXCEPT !.tags = new_tags_of(call[1].new_tag_names, call[1].existing_tags),
                    !.other = 0]

\* the body update_link_tags sends
put_body == [link[1] EXCEPT !.tags = new_tags_of(call[1].new_tag_names, call[1].existing_tags)]

\* what the PUT of body to link l undoes of the other client's changes
lost_changes(l, body) ==
    LET after == links_after_put(l, body)[l] IN
    {[link_id |-> l, kind |-> "added", what |-> n] : n \in pending[l].added \ after.tags}
    \cup {[link_id |-> l, kind |-> "removed", what |-> n] : n \in pending[l].removed \cap after.tags}
    \cup (IF pending[l].other # None /\ after.other # pending[l].other[1]
          THEN {[link_id |-> l, kind |-> "field", what |-> "other"]} ELSE {})

\* update_link_tags: the PUT succeeds
PutLink ==
    /\ pc = "put"
    /\ LET l == call[1].link_id IN
       /\ store_tags' = tags_after_put(put_body)
       /\ store_links' = links_after_put(l, put_body)
       /\ puts' = Append(puts, [link_id |-> l, run |-> run, body |-> put_body, ok |-> TRUE,
                                 after |-> links_after_put(l, put_body)[l].tags])
       /\ overwritten' = overwritten \cup lost_changes(l, put_body)
       /\ pending' = [pending EXCEPT ![l] = NoPending[l]]
    /\ Return(call[1], TRUE)
    /\ UNCHANGED <<caller, dry_run, run, existing_tags_cache, recent_links,
                   other_left, pureVars, removerVars>>

\* update_link_tags: the PUT fails, the store is unchanged
PutLinkFails ==
    /\ pc = "put"
    /\ puts' = Append(puts, [link_id |-> call[1].link_id, run |-> run,
                             body |-> put_body, ok |-> FALSE,
                             after |-> store_links[call[1].link_id].tags])
    /\ Return(call[1], FALSE)
    /\ UNCHANGED <<storeVars, caller, dry_run, run, existing_tags_cache, recent_links,
                   otherVars, pureVars, removerVars>>

\* the job is started again: a new process, nothing cached
Restart ==
    /\ pc = "done"
    /\ run < MaxRuns
    /\ run' = run + 1
    /\ pc' = "start"
    /\ existing_tags_cache' = NoCache
    /\ recent_links' = <<>>
    /\ idx' = 0
    /\ stats' = ZeroStats
    /\ UNCHANGED <<storeVars, caller, dry_run, call, link, puts, returns, otherVars, pureVars, removerVars>>

(***************************************************************************)
(* Another client of the store.  Its change to a link is pending while the *)
(* run holds a copy of the link it has not written back yet.               *)
(***************************************************************************)
held(l) ==
    /\ pc \in {"loop", "fetch_link", "put"}
    /\ \E i \in idx..Len(recent_links) : recent_links[i].id = l

OtherAddsTag ==
    /\ other_left > 0
    /\ \E l \in LinkIds : \E n \in OtherNames \ store_links[l].tags :
          /\ store_links' = [store_links EXCEPT ![l].tags = @ \cup {n}]
          /\ store_tags' = IF n \in Range(store_tags) THEN store_tags ELSE Append(store_tags, n)
          /\ pending' = IF held(l) THEN [pending EXCEPT ![l].added = @ \cup {n}] ELSE pending
    /\ other_left' = other_left - 1
    /\ UNCHANGED <<procVars, puts, returns, overwritten, pureVars, removerVars>>

OtherRemovesTag ==
    /\ other_left > 0
    /\ \E l \in LinkIds : \E n \in store_links[l].tags :
          /\ store_links' = [store_links EXCEPT ![l].tags = @ \ {n}]
          /\ pending' = IF held(l) THEN [pending EXCEPT ![l].removed = @ \cup {n}] ELSE pending
    /\ other_left' = other_left - 1
    /\ UNCHANGED <<store_tags, procVars, puts, returns, overwritten, pureVars, removerVars>>

OtherSetsField ==
    /\ other_left > 0
    /\ \E l \in LinkIds :
          /\ store_links' = [store_links EXCEPT ![l].other = @ + 1]
          /\ pending' = IF held(l) THEN [pending EXCEPT ![l].other = Some(store_links[l].other + 1)]
                        ELSE pending
    /\ other_left' = other_left - 1
    /\ UNCHANGED <<store_tags, procVars, puts, returns, overwritten, pureVars, removerVars>>

(***************************************************************************)
(* Spec: one run of process_recent_links, dry or live, against a store     *)
(* whose requests can fail.                                                *)
(***************************************************************************)
InitStore(n, other_of) ==
    /\ store_tags \in StoreTagLists(n)
    /\ store_links \in StoreLinks(store_tags, other_of)

Init ==
    /\ InitStore(MaxStoreTags, [l \in LinkIds |-> l])
    /\ dry_run \in BOOLEAN
    /\ existing_tags_cache = NoCache
    /\ other_left = 0
    /\ InitProcess("process_recent_links", "start")
    /\ CaseIdle /\ JunkIdle /\ FuzzyIdle /\ PlanIdle /\ RemoverIdle

Next ==
    \/ FetchAllExistingTags
    \/ FetchAllExistingTagsFails
    \/ FetchAllExistingTagsMalformed
    \/ FetchRecentLinks
    \/ FetchRecentLinksFails
    \/ FetchRecentLinksMalformed
    \/ ProcessLink
    \/ FetchLinkById
    \/ FetchLinkByIdFails
    \/ PutLink
    \/ PutLinkFails

Spec == Init /\ [][Next]_vars

(***************************************************************************)
(* SpecLinkTags: normalize_link_tags on its own, for a link whose tags are *)
(* all in the existing-tag list.                                           *)
(***************************************************************************)
LinkTagNames == {"react", "React", "Reacts", "Reactsx"}

\* the sequences over S of length 1..n without a repeated element
DistinctSeqs(S, n) ==
    {q \in SeqsUpTo(S, n) : q # <<>> /\ \A i, j \in 1..Len(q) : q[i] = q[j] => i = j}

InitLinkTags ==
    /\ fz_tag = ""
    /\ fz_existing \in DistinctSeqs(LinkTagNames, MaxExisting)
    /\ fz_threshold \in Thresholds
    /\ fz_link_tags \in DistinctSeqs(Range(fz_existing), MaxExisting)
    /\ fz_out = [called |-> FALSE, result |-> None]
    /\ CaseIdle /\ JunkIdle /\ PlanIdle /\ NormIdle /\ RemoverIdle

\* one call of normalize_link_tags
NormalizeLinkTags ==
    /\ ~fz_out.called
    /\ fz_out' =
          [called |-> TRUE,
           result |-> normalize_link_tags(
                          [tags |-> [i \in 1..Len(fz_link_tags) |-> [name |-> fz_link_tags[i]]]],
                          [i \in 1..Len(fz_existing) |-> [name |-> fz_existing[i]]],
                          fz_threshold).result]
    /\ UNCHANGED <<fz_tag, fz_existing, fz_threshold, fz_link_tags, caseVars, junkVars, planVars,
                   normVars, removerVars>>

NextLinkTags == NormalizeLinkTags

SpecLinkTags == InitLinkTags /\ [][NextLinkTags]_vars

(***************************************************************************)
(* SpecLookback: one run whose requests succeed, over links whose          *)
(* updatedAt has any of the forms the store may hold.                      *)
(***************************************************************************)
\* updatedAt of a link: a naive ISO time at, on the edge of and before the
\* window, a time of now in the UTC form ending in Z or with an offset, no
\* value, and text that is no time
Stamps ==
    {[form |-> "naive", age |-> a] :
        a \in {0, lookback_minutes, lookback_minutes + 1}}
    \cup {[form |-> f, age |-> 0] : f \in {"Z", "offset", "missing", "garbled"}}

InitLookback ==
    /\ store_tags = <<"react", "Reacts">>
    /\ store_links \in
          {[l \in LinkIds |-> [tags |-> {"Reacts"}, other |-> 0, updatedAt |-> u[l]]] :
              u \in [LinkIds -> Stamps]}
    /\ dry_run \in BOOLEAN
    /\ existing_tags_cache = NoCache
    /\ other_left = 0
    /\ InitProcess("process_recent_links", "start")
    /\ CaseIdle /\ JunkIdle /\ FuzzyIdle /\ PlanIdle /\ RemoverIdle

NextLookback ==
    \/ FetchAllExistingTags
    \/ FetchRecentLinks
    \/ ProcessLink
    \/ FetchLinkById
    \/ PutLink

SpecLookback == InitLookback /\ [][NextLookback]_vars

(***************************************************************************)
(* SpecConc: one run whose requests succeed, and another client writing    *)
(* to the store while it runs.                                             *)
(***************************************************************************)
InitConc ==
    /\ InitStore(MaxStoreTags, [l \in LinkIds |-> 0])
    /\ dry_run \in BOOLEAN
    /\ existing_tags_cache = NoCache
    /\ other_left = MaxOther
    /\ InitProcess("process_recent_links", "start")
    /\ CaseIdle /\ JunkIdle /\ FuzzyIdle /\ PlanIdle /\ RemoverIdle

NextConc ==
    \/ FetchAllExistingTags
    \/ FetchRecentLinks
    \/ ProcessLink
    \/ FetchLinkById
    \/ PutLink
    \/ OtherAddsTag
    \/ OtherRemovesTag
    \/ OtherSetsField

SpecConc == InitConc /\ [][NextConc]_vars

(***************************************************************************)
(* SpecRerun: live runs whose requests all succeed, one after the other,   *)
(* with no other client.                                                   *)
(***************************************************************************)
InitRerun ==
    /\ InitStore(MaxRerunTags, [l \in LinkIds |-> 0])
    /\ dry_run = FALSE
    /\ existing_tags_cache = NoCache
    /\ other_left = 0
    /\ InitProcess("process_recent_links", "start")
    /\ CaseIdle /\ JunkIdle /\ FuzzyIdle /\ PlanIdle /\ RemoverIdle

NextRerun ==
    \/ FetchAllExistingTags
    \/ FetchRecentLinks
    \/ ProcessLink
    \/ FetchLinkById
    \/ PutLink
    \/ Restart

SpecRerun == InitRerun /\ [][NextRerun]_vars

(***************************************************************************)
(* SpecRewrite: update_link_tags called several times in a row for the     *)
(* same link with the same names, with the tag list fetched once before,   *)
(* and no other client.                                                    *)
(***************************************************************************)
InitRewrite ==
    /\ InitStore(MaxRewriteTags, [l \in LinkIds |-> 0])
    /\ dry_run \in BOOLEAN
    /\ existing_tags_cache = [state |-> "list", tags |-> tag_records]
    /\ other_left = 0
    /\ InitProcess("direct", "idle")
    /\ CaseIdle /\ JunkIdle /\ FuzzyIdle /\ PlanIdle /\ RemoverIdle

NextRewrite ==
    \/ CallUpdateLinkTags
    \/ CallUpdateLinkTagsAgain
    \/ FetchLinkById
    \/ PutLink

SpecRewrite == InitRewrite /\ [][NextRewrite]_vars

(***************************************************************************)
(* SpecRemove: one run of remove_junk_tags.py with the shipped word sets:  *)
(* analyze, report, and, when confirmed, delete.                           *)
(***************************************************************************)
\* GET /tags as the remover's store answers it
tag_listing ==
    [i \in 1..Len(tag_store) |->
        [id |-> tag_store[i].id, name |-> tag_store[i].name,
         _count |-> [links |-> tag_store[i].links]]]

\* JunkTagRemover.analyze_tags over the fetched tags
RECURSIVE junk_items(_, _)
junk_items(junk_words, ts) ==
    IF ts = <<>> THEN <<>>
    ELSE LET verdict == is_junk_tag(junk_words, Head(ts).name) IN
         (IF verdict[1]
          THEN <<[tag |-> Head(ts), reason |-> verdict[2], usage |-> Head(ts)._count.links]>>
          ELSE <<>>) \o junk_items(junk_words, Tail(ts))

RECURSIVE good_items(_, _)
good_items(junk_words, ts) ==
    IF ts = <<>> THEN <<>>
    ELSE (IF is_junk_tag(junk_words, Head(ts).name)[1] THEN <<>> ELSE <<Head(ts)>>)
             \o good_items(junk_words, Tail(ts))

analyze_tags(junk_words, ts) ==
    [junk_tags |-> junk_items(junk_words, ts),
     good_tags |-> good_items(junk_words, ts),
     total |-> Len(ts)]

\* the junk tags in the order of the analysis
sorted_by_usage_Unsorted(items) == items

\* sorted(junk_tags, key=usage): stable, equal keys keep their order
RECURSIVE sorted_by_usage(_)
sorted_by_usage(items) ==
    IF items = <<>> THEN <<>>
    ELSE CHOOSE r \in
            {LET x == items[Len(items)]
                 p == Cardinality({i \in 1..Len(acc) : acc[i].usage <= x.usage})
             IN  SubSeq(acc, 1, p) \o <<x>> \o SubSeq(acc, p + 1, Len(acc))
                : acc \in {sorted_by_usage(SubSeq(items, 1, Len(items) - 1))}} : TRUE

\* remove_junk_tags skips the item: usage above a positive min_usage
skipped(item, min) == item.usage > min /\ min > 0

\* a delete_tag that sends the request in a dry run too
delete_tag_entry_NoDryRun(dry) == "delete"

\* delete_tag, its first lines: a dry run returns True at once
delete_tag_entry(dry) == IF dry THEN "return_true" ELSE "delete"

RemoverTagStores ==
    {[i \in 1..Len(ns) |-> [id |-> i, name |-> ns[i], links |-> us[i]]] :
        ns \in {x \in SeqsUpTo(RemoverNames, MaxRemoverTags) :
                   \A i, j \in 1..Len(x) : x[i] = x[j] => i = j},
        us \in [1..MaxRemoverTags -> RemoverUsages]}

InitRemove ==
    /\ rm_pc = "start"
    /\ analyze \in BOOLEAN
    /\ remover_dry_run \in {d \in BOOLEAN : analyze => d}
    /\ min_usage \in MinUsages
    /\ tag_store \in RemoverTagStores
    /\ analysis = NoAnalysis
    /\ junk_tags_sorted = <<>>
    /\ rm_idx = 0
    /\ remover_stats = ZeroRemoverStats
    /\ deletes = <<>>
    /\ junk_added = {}
    /\ junk_pc = "ready"
    /\ junk_in = ""
    /\ junk_out = None
    /\ CaseIdle /\ FuzzyIdle /\ PlanIdle /\ NormIdle

otherThanRemover == <<caseVars, junkVars, fuzzyVars, planVars, normVars>>

\* analyze_tags: fetch_all_tags answers a bare array or an envelope
AnalyzeTags ==
    /\ rm_pc = "start"
    /\ \E shape \in {"list", "envelope"} :
          analysis' = analyze_tags(JUNK_WORDS, tag_listing)
    /\ remover_stats' = [remover_stats EXCEPT !.tags_analyzed = analysis'.total,
                                              !.junk_tags_found = Len(analysis'.junk_tags)]
    /\ rm_pc' = "analyzed"
    /\ UNCHANGED <<analyze, remover_dry_run, min_usage, tag_store, junk_tags_sorted,
                   rm_idx, deletes, otherThanRemover>>

\* fetch_all_tags: the request fails, sys.exit(1)
FetchAllTagsFails ==
    /\ rm_pc = "start"
    /\ rm_pc' = "exited"
    /\ UNCHANGED <<analyze, remover_dry_run, min_usage, tag_store, analysis,
                   junk_tags_sorted, rm_idx, remover_stats, deletes, otherThanRemover>>

\* fetch_all_tags: the body is an object without a response field; analyze_tags
\* loops over its keys and raises AttributeError, which nothing catches
FetchAllTagsMalformed ==
    /\ rm_pc = "start"
    /\ remover_stats' = [remover_stats EXCEPT !.tags_analyzed = 1]
    /\ rm_pc' = "crashed"
    /\ UNCHANGED <<analyze, remover_dry_run, min_usage, tag_store, analysis,
                   junk_tags_sorted, rm_idx, deletes, otherThanRemover>>

\* print_analysis_report (and export_junk_list): the percentages divide by
\* the number of tags, ZeroDivisionError when there is none
PrintAnalysisReport ==
    /\ rm_pc = "analyzed"
    /\ rm_pc' = IF analysis.total = 0 THEN "crashed" ELSE "reported"
    /\ UNCHANGED <<analyze, remover_dry_run, min_usage, tag_store, analysis,
                   junk_tags_sorted, rm_idx, remover_stats, deletes, otherThanRemover>>

\* main with --analyze: nothing is removed
AnalyzeOnly ==
    /\ rm_pc = "reported"
    /\ analyze
    /\ rm_pc' = "done"
    /\ UNCHANGED <<analyze, remover_dry_run, min_usage, tag_store, analysis,
                   junk_tags_sorted, rm_idx, remover_stats, deletes, otherThanRemover>>

\* main: the answer to "Proceed with removal?" is not y
Cancel ==
    /\ rm_pc = "reported"
    /\ ~analyze
    /\ rm_pc' = "done"
    /\ UNCHANGED <<analyze, remover_dry_run, min_usage, tag_store, analysis,
                   junk_tags_sorted, rm_idx, remover_stats, deletes, otherThanRemover>>

\* main: the answer is y; remove_junk_tags up to its loop
RemoveJunkTags ==
    /\ rm_pc = "reported"
    /\ ~analyze
    /\ junk_tags_sorted' = sorted_by_usage(analysis.junk_tags)
    /\ rm_idx' = 1
    /\ rm_pc' = IF analysis.junk_tags = <<>> THEN "done" ELSE "removing"
    /\ UNCHANGED <<analyze, remover_dry_run, min_usage, tag_store, analysis,
                   remover_stats, deletes, otherThanRemover>>

after_item == IF rm_idx + 1 > Len(junk_tags_sorted) THEN "done" ELSE "removing"

\* remove_junk_tags, one turn of the loop: the item is skipped, or delete_tag
\* returns at once (dry run), or its DELETE succeeds
DeleteTag ==
    /\ rm_pc = "removing"
    /\ LET item == junk_tags_sorted[rm_idx] IN
       IF skipped(item, min_usage) \/ delete_tag_entry(remover_dry_run) = "return_true"
       THEN UNCHANGED <<tag_store, remover_stats, deletes>>
       ELSE /\ deletes' = Append(deletes, [tag_id |-> item.tag.id, name |-> item.tag.name,
                                           usage |-> item.usage, ok |-> TRUE])
            /\ tag_store' = SelectSeq(tag_store, LAMBDA t : t.id # item.tag.id)
            /\ remover_stats' = [remover_stats EXCEPT !.tags_deleted = @ + 1]
    /\ rm_idx' = rm_idx + 1
    /\ rm_pc' = after_item
    /\ UNCHANGED <<analyze, remover_dry_run, min_usage, analysis, junk_tags_sorted,
                   otherThanRemover>>

\* delete_tag: the DELETE fails (the tag is gone already, or any other error)
DeleteTagFails ==
    /\ rm_pc = "removing"
    /\ LET item == junk_tags_sorted[rm_idx] IN
       /\ ~skipped(item, min_usage)
       /\ delete_tag_entry(remover_dry_run) = "delete"
       /\ deletes' = Append(deletes, [tag_id |-> item.tag.id, name |-> item.tag.name,
                                      usage |-> item.usage, ok |-> FALSE])
    /\ remover_stats' = [remover_stats EXCEPT !.errors = @ + 1]
    /\ rm_idx' = rm_idx + 1
    /\ rm_pc' = after_item
    /\ UNCHANGED <<analyze, remover_dry_run, min_usage, tag_store, analysis,
                   junk_tags_sorted, otherThanRemover>>

NextRemove ==
    \/ AnalyzeTags
    \/ FetchAllTagsFails
    \/ FetchAllTagsMalformed
    \/ PrintAnalysisReport
    \/ AnalyzeOnly
    \/ Cancel
    \/ RemoveJunkTags
    \/ DeleteTag
    \/ DeleteTagFails

SpecRemove == InitRemove /\ [][NextRemove]_vars

(***************************************************************************)
(* SpecTools: one run of either tool, the normalizer (as in Spec) or the   *)
(* junk remover (as in SpecRemove).                                        *)
(***************************************************************************)
InitTools == Init \/ InitRemove

NextTools == Next \/ NextRemove

SpecTools == InitTools /\ [][NextTools]_vars

(***************************************************************************)
(* Claims about the link rewrite and the run.                              *)
(***************************************************************************)
\* two calls of update_link_tags in a row, for the same link with the same
\* names, have both returned True in a live process
twice_in_a_row ==
    /\ ~dry_run
    /\ Len(returns) >= 2
    /\ returns[1] = returns[2]
    /\ returns[1].result

\* C1 as stated: calling update_link_tags twice in a row for the same link
\* with the same names issues no second PUT
Orig_C1_NoSecondWrite == twice_in_a_row => Len(puts) <= 1

\* C1: calling update_link_tags twice in a row for the same link with the
\* same names, with no other writer, sends the PUT twice, with the same tag
\* names in both bodies, and the link has the identical tag-name set, the
\* requested names, after both calls
Thm_C1_SecondWriteSameTags ==
    twice_in_a_row =>
        /\ Len(puts) >= 2
        /\ puts[1].ok /\ puts[2].ok
        /\ puts[1].link_id = returns[1].link_id
        /\ puts[2].link_id = returns[1].link_id
        /\ names_of(puts[1].body.tags) = returns[1].new_tag_names
        /\ names_of(puts[2].body.tags) = returns[1].new_tag_names
        /\ puts[1].after = Range(returns[1].new_tag_names)
        /\ puts[2].after = puts[1].after

Wit_C1_CalledTwice ==
    /\ twice_in_a_row
    /\ Len(returns[1].new_tag_names) = 2
    /\ returns[1].new_tag_names[1] # returns[1].new_tag_names[2]
    /\ pc = "idle"

\* C11: every PUT is sent for the link the loop is at, after a successful GET
\* of that link, with the fetched record as body, only its tags replaced; a
\* failed GET sends no PUT, and a store record changes only by the PUT for it
Thm_C11_FullRecordFrame ==
    [][ /\ puts' # puts =>
              LET e == puts'[Len(puts')] IN
              /\ pc = "put"
              /\ Len(puts') = Len(puts) + 1
              /\ link # None
              /\ e.link_id = recent_links[idx].id
              /\ link[1].id = e.link_id
              /\ DOMAIN e.body = DOMAIN link[1]
              /\ \A k \in (DOMAIN link[1]) \ {"tags"} : e.body[k] = link[1][k]
              /\ names_of(e.body.tags) = call[1].new_tag_names
        /\ pc = "fetch_link" => puts' = puts
        /\ \A l \in LinkIds :
              store_links'[l] # store_links[l] =>
                  /\ puts' # puts
                  /\ puts'[Len(puts')].link_id = l
                  /\ store_links'[l].other = store_links[l].other
      ]_vars

Wit_C11_PutKeepsOtherField ==
    /\ puts # <<>>
    /\ puts[1].ok
    /\ puts[1].body.other = puts[1].link_id
    /\ store_links[puts[1].link_id].other = puts[1].link_id
    /\ \E l \in LinkIds : l # puts[1].link_id /\ store_links[l].tags # {}
    /\ \E i \in 1..Len(returns) : ~returns[i].result

\* C12: a written tag object is, for a name in the existing-tag list, that
\* tag's record with its id and without _count, and otherwise the bare name
\* without an id; no written tag object has a _count
Thm_C12_TagReuse ==
    \A i \in 1..Len(puts) : \A k \in 1..Len(puts[i].body.tags) :
        LET t == puts[i].body.tags[k]
            listed == {j \in 1..Len(existing_tags) : existing_tags[j].name = t.name}
        IN  /\ "_count" \notin DOMAIN t
            /\ t.name = returns[i].new_tag_names[k]
            /\ listed # {} =>
                  \E j \in listed : /\ "_count" \in DOMAIN existing_tags[j]
                                    /\ t = [id |-> existing_tags[j].id, name |-> t.name]
            /\ listed = {} => t = [name |-> t.name]

Wit_C12_ReusedAndBare ==
    /\ puts # <<>>
    /\ Len(puts[1].body.tags) = 2
    /\ DOMAIN puts[1].body.tags[1] = {"name"}
    /\ DOMAIN puts[1].body.tags[2] = {"id", "name"}
    /\ existing_tags # <<>>

\* the normalized name of every named tag of the link the loop is at
normalized_each ==
    LET tag_names == truthy_names(recent_links[idx].tags) IN
    [k \in 1..Len(tag_names) |->
        normalize_tag(tag_names[k], existing_tags, similarity_threshold).name]

FirstIndex(seq, x) == CHOOSE i \in 1..Len(seq) : seq[i] = x /\ \A j \in 1..(i - 1) : seq[j] # x

\* C13: the name list normalize_link_tags hands to update_link_tags has no
\* name twice, has exactly the normalized names of the link's tags, and keeps
\* them in the order of their first occurrences
Thm_C13_Deduplicated ==
    pc \in {"fetch_link", "put"} =>
        LET names == call[1].new_tag_names IN
        /\ \A i, j \in 1..Len(names) : names[i] = names[j] => i = j
        /\ Range(names) = Range(normalized_each)
        /\ \A i, j \in 1..Len(names) :
              i < j => FirstIndex(normalized_each, names[i]) < FirstIndex(normalized_each, names[j])

Wit_C13_TwoTagsOneName ==
    /\ pc = "put"
    /\ \E i, j \in 1..Len(normalized_each) : i # j /\ normalized_each[i] = normalized_each[j]
    /\ Len(call[1].new_tag_names) < Len(normalized_each)

\* C14: in a dry run no PUT and no DELETE is sent and the store stays as it
\* was, whatever the store holds and however many links or junk tags the run
\* goes through
Thm_C14_DryRunWritesNothing ==
    [][ /\ dry_run => /\ puts' = puts
                      /\ puts = <<>>
                      /\ store_tags' = store_tags
                      /\ store_links' = store_links
        /\ remover_dry_run => /\ deletes' = deletes
                              /\ deletes = <<>>
                              /\ tag_store' = tag_store
      ]_vars

Wit_C14_DryRunWouldUpdate ==
    /\ dry_run
    /\ pc = "done"
    /\ stats.links_updated = 2
    /\ puts = <<>>

\* C15: a dry run performs the reads of a live run: a link is counted as
\* updated only after the GET of its full record.
Orig_C15_DryRunSameReads ==
    [][ stats'.links_updated # stats.links_updated => link # None ]_vars

FailedReturns == {i \in 1..Len(returns) : ~returns[i].result}
FailedDeletes == {i \in 1..Len(deletes) : ~deletes[i].ok}

\* C16: a failed GET or PUT of a link, and a failed DELETE of a tag, adds
\* exactly one to errors; no link and no tag gets a second write attempt; the
\* loop goes on with the next link or tag, and a run that ends has gone through
\* all of them.
Thm_C16_FailureIsolation ==
    /\ [](/\ stats.errors = Cardinality(FailedReturns)
          /\ \A i, j \in 1..Len(puts) : puts[i].link_id = puts[j].link_id => i = j
          /\ pc = "done" => stats.links_processed = Len(recent_links)
          /\ remover_stats.errors = Cardinality(FailedDeletes)
          /\ \A i, j \in 1..Len(deletes) : deletes[i].tag_id = deletes[j].tag_id => i = j
          /\ rm_pc = "removing" => rm_idx <= Len(junk_tags_sorted)
          /\ (rm_pc = "done" /\ junk_tags_sorted # <<>>) => rm_idx = Len(junk_tags_sorted) + 1)
    /\ [][ /\ stats'.errors # stats.errors =>
                /\ stats'.errors = stats.errors + 1
                /\ recent_links' = recent_links
                /\ idx' = idx + 1
                /\ pc' = IF idx' > Len(recent_links) THEN "done" ELSE "loop"
           /\ remover_stats'.errors # remover_stats.errors =>
                /\ remover_stats'.errors = remover_stats.errors + 1
                /\ junk_tags_sorted' = junk_tags_sorted
                /\ rm_idx' = rm_idx + 1
                /\ rm_pc' = IF rm_idx' > Len(junk_tags_sorted) THEN "done" ELSE "removing"
         ]_vars

\* the PUT of the first link failed, the second link was updated all the same
Wit_C16_NextLinkAfterFailure ==
    /\ pc = "done"
    /\ Len(puts) = 2
    /\ ~puts[1].ok /\ puts[2].ok
    /\ stats.errors = 1
    /\ stats.links_updated = 1

\* C17: a tag listing that is an object without a response field counts as
\* no tags, and the run over the recent links goes on without error.
Orig_C17_MalformedIsEmpty ==
    (existing_tags_cache.state = "dict" /\ recent_links # <<>>) => pc # "crashed"

\* C18: a run that saw no existing tags (none in the store, or the fetch
\* failed) sends no PUT.
Orig_C18_NoTagsNoPut ==
    (existing_tags_cache.state \in {"list", "none"} /\ existing_tags = <<>> /\ pc # "start")
        => puts = <<>>

\* C2: after one complete live run whose writes all succeeded, and with no
\* other client, an immediate second run sends no PUT
Orig_C2_RerunSendsNoPut == \A i \in 1..Len(puts) : puts[i].run = 1

\* C3: a change another client made to a link, after the run obtained the
\* link and before the run's PUT of it, is still in the store after the PUT
Orig_C3_NoLostUpdate == overwritten = {}

(***************************************************************************)
(* Claims about the case rules.                                            *)
(***************************************************************************)
\* every string with the same lower-cased form as s
RECURSIVE SameLowerForms(_)
SameLowerForms(s) ==
    IF s = "" THEN {""}
    ELSE {c \o t : c \in {lowerCh(Head(s)), upperCh(Head(s))},
                   t \in SameLowerForms(Tail(s))}

junk_lower_name == strip(lower(junk_in))

\* C6 as stated: a name in both the blocklist and the valid-acronym set is
\* classified not junk with reason valid_acronym.
Orig_C6_AcronymWins ==
    (junk_out # None /\ junk_lower_name \in JUNK_WORDS /\ junk_lower_name \in VALID_ACRONYMS)
        => junk_out[1] = <<FALSE, "valid_acronym">>

\* C6 as amended: a name in both the blocklist and the valid-acronym set is
\* classified junk with reason blocklist (the blocklist is looked at first).
Thm_C6_BlocklistWins ==
    (junk_out # None /\ junk_lower_name \in JUNK_WORDS /\ junk_lower_name \in VALID_ACRONYMS)
        => junk_out[1] = <<TRUE, "blocklist">>

\* a name of both sets has been classified
Wit_C6_InBothSets ==
    /\ junk_out # None
    /\ junk_lower_name \in JUNK_WORDS
    /\ junk_lower_name \in VALID_ACRONYMS

\* C7 as stated: under the shipped sets the name "a" is junk with reason single_char.
Orig_C7_SingleChar ==
    (junk_out # None /\ JUNK_WORDS = SHIPPED_JUNK_WORDS /\ junk_in = "a")
        => junk_out[1] = <<TRUE, "single_char">>

\* C7 as amended: under the shipped sets the name "a" is junk with reason
\* blocklist (every single letter and digit is a blocklist word).
Thm_C7_SingleLetterBlocklist ==
    (junk_out # None /\ JUNK_WORDS = SHIPPED_JUNK_WORDS /\ junk_in = "a")
        => junk_out[1] = <<TRUE, "blocklist">>

\* "a" has been classified under the shipped sets
Wit_C7_ClassifiedA ==
    junk_out # None /\ JUNK_WORDS = SHIPPED_JUNK_WORDS /\ junk_in = "a"

(***************************************************************************)
(* Claims about find_similar_tag.                                          *)
(***************************************************************************)
MinOf(S) == CHOOSE i \in S : \A j \in S : i <= j

fz_hits == {i \in 1..Len(fz_existing) : Qualifies(fz_tag, fz_existing[i], fz_threshold)}
fz_exact == {i \in 1..Len(fz_existing) : lower(fz_tag) = lower(fz_existing[i])}

\* C9: the result is the name at the lowest qualifying index (equal ignoring
\* case, or ratio >= threshold), never a later one; None exactly when no
\* element qualifies.
Thm_C9_FirstMatchWins ==
    fz_out.called =>
        IF fz_hits = {} THEN fz_out.result = None
        ELSE fz_out.result = Some(fz_existing[MinOf(fz_hits)])

\* a similar name was returned although a later element matches exactly
Wit_C9_LaterBetterIgnored ==
    /\ fz_out.called
    /\ fz_exact # {}
    /\ MinOf(fz_hits) < MinOf(fz_exact)
    /\ fz_out.result = Some(fz_existing[MinOf(fz_hits)])
    /\ lower(fz_out.result[1]) # lower(fz_tag)

\* C10 as stated: when some element equals the candidate ignoring case, the
\* first such element is returned, wherever a merely similar name sits.
Orig_C10_ExactPriority ==
    (fz_out.called /\ fz_exact # {})
        => fz_out.result = Some(fz_existing[MinOf(fz_exact)])

\* C10 as amended: when some element equals the candidate ignoring case, the
\* first such element is returned unless a merely similar name (ratio >=
\* threshold) sits before it; then the earliest such similar name is returned.
Thm_C10_ExactUnlessEarlierSimilar ==
    (fz_out.called /\ fz_exact # {}) =>
        LET e == MinOf(fz_exact)
            similar_before ==
                {i \in 1..(e - 1) :
                    ratio_at_least(lower(fz_tag), lower(fz_existing[i]), fz_threshold)}
        IN  IF similar_before = {} THEN fz_out.result = Some(fz_existing[e])
            ELSE fz_out.result = Some(fz_existing[MinOf(similar_before)])

\* an exact match was returned past an earlier element that does not qualify
Wit_C10_ExactAfterDissimilar ==
    /\ fz_out.called
    /\ fz_exact # {}
    /\ MinOf(fz_exact) > 1
    /\ fz_out.result = Some(fz_existing[MinOf(fz_exact)])

(***************************************************************************)
(* Claims about the consolidation plan.                                    *)
(***************************************************************************)
plan == mapping[1].plan
deleted_names == {plan.tags_to_delete[i].name : i \in 1..Len(plan.tags_to_delete)}

\* C4: in every generated plan no tag name is a key of case_normalizations and
\* of semantic_consolidations at once, and no name of tags_to_delete is a key
\* of either mapping.
Orig_C4_MutualExclusivity ==
    mapping # None =>
        /\ (DOMAIN plan.case_normalizations) \cap (DOMAIN plan.semantic_consolidations) = {}
        /\ deleted_names \cap (DOMAIN plan.case_normalizations) = {}
        /\ deleted_names \cap (DOMAIN plan.semantic_consolidations) = {}

\* C5: estimated_final_tag_count is never negative.
Orig_C5_EstimateNonNegative ==
    mapping # None => plan.statistics.estimated_final_tag_count >= 0

\* the tags of the analyzed list that share the lower-cased name of tag i
case_group(i) == {j \in 1..Len(tags) : lower(tags[j].name) = lower(tags[i].name)}
\* the member of i's group with the highest usage count, the earliest of equals
top_of_group(i) ==
    CHOOSE j \in case_group(i) :
        \A m \in case_group(i) :
            tags[j].links > tags[m].links \/ (tags[j].links = tags[m].links /\ j <= m)
canonical_of_group(i) == choose_canonical_form(<<tags[top_of_group(i)].name>>)

\* C19: in a generated plan, a tag of a group of two or more tags with the
\* same lower-cased name is a key of case_normalizations, mapped to the
\* canonical form of the group's most used member, exactly if its name is not
\* that canonical form; a tag alone in its group is never a key.
Thm_C19_CaseNormalizationPlan ==
    mapping # None =>
        /\ \A i \in 1..Len(tags) :
              IF Cardinality(case_group(i)) >= 2 /\ tags[i].name # canonical_of_group(i)
              THEN /\ tags[i].name \in DOMAIN plan.case_normalizations
                   /\ plan.case_normalizations[tags[i].name] = canonical_of_group(i)
              ELSE tags[i].name \notin DOMAIN plan.case_normalizations
        /\ DOMAIN plan.case_normalizations \subseteq {tags[i].name : i \in 1..Len(tags)}

\* tech(2), Tech(0) gives exactly {tech: Tech}, next to a tag alone in its group
Wit_C19_LowerCaseMostUsed ==
    /\ mapping # None
    /\ Len(tags) = 3
    /\ \E i, j \in 1..Len(tags) :
          /\ tags[i].name = "tech" /\ tags[i].links = 2
          /\ tags[j].name = "Tech" /\ tags[j].links = 0
    /\ plan.case_normalizations = [n \in {"tech"} |-> "Tech"]

consolidation_keys ==
    (DOMAIN plan.case_normalizations) \cup (DOMAIN plan.semantic_consolidations)
to_delete_expected ==
    {i \in 1..Len(tags) : /\ mapping[1].delete_low_use
                          /\ tags[i].name \notin consolidation_keys
                          /\ tags[i].links < mapping[1].low_use_threshold}

\* C20: tags_to_delete holds, once each, exactly the tags that are no key of
\* case_normalizations or semantic_consolidations and are used less often than
\* low_use_threshold, when delete_low_use is set; it is empty when
\* delete_low_use is not set or low_use_threshold is 0.
Thm_C20_DeletionRule ==
    mapping # None =>
        /\ {[name |-> tags[i].name, id |-> tags[i].id, usage |-> tags[i].links] :
                i \in to_delete_expected}
             = {plan.tags_to_delete[k] : k \in 1..Len(plan.tags_to_delete)}
        /\ Len(plan.tags_to_delete) = Cardinality(to_delete_expected)
        /\ (~mapping[1].delete_low_use \/ mapping[1].low_use_threshold = 0)
              => plan.tags_to_delete = <<>>
        /\ deleted_names \cap consolidation_keys = {}

\* a rarely used case duplicate is kept for its canonical form, another rarely
\* used tag is marked for deletion
Wit_C20_LowUseDuplicateKept ==
    /\ mapping # None
    /\ mapping[1].delete_low_use
    /\ plan.tags_to_delete # <<>>
    /\ \E i \in 1..Len(tags) :
          /\ tags[i].name \in DOMAIN plan.case_normalizations
          /\ tags[i].links < mapping[1].low_use_threshold
          /\ tags[i].name \notin deleted_names

(***************************************************************************)
(* The junk classifier against the ordered decision list.                  *)
(***************************************************************************)
\* the verdicts of the seven rules, in their order
rule_verdicts ==
    << <<TRUE, "blocklist">>, <<FALSE, "valid_acronym">>, <<TRUE, "too_short">>,
       <<TRUE, "single_char">>, <<TRUE, "all_digits">>, <<TRUE, "no_alphanumeric">>,
       <<TRUE, "generic_suffix">> >>

\* rule k matches the raw string raw, name being the form of it that is
\* looked up and measured
rule_matches(k, raw, name) ==
    CASE k = 1 -> name \in JUNK_WORDS
      [] k = 2 -> name \in VALID_ACRONYMS
      [] k = 3 -> Len(name) <= 2 /\ ~isupper(raw)
      [] k = 4 -> Len(raw) = 1
      [] k = 5 -> raw # "" /\ \A i \in 1..Len(raw) : Ch(raw, i) \in DigitSet
      [] k = 6 -> \A i \in 1..Len(raw) : ~isalnumCh(Ch(raw, i))
      [] k = 7 -> Len(name) <= 6 /\ \E suffix \in generic_suffixes :
                      /\ Len(name) >= Len(suffix)
                      /\ SubSeq(name, Len(name) - Len(suffix) + 1, Len(name)) = suffix

\* the verdict of the first rule that matches, not junk if none does
first_rule_verdict(raw, name) ==
    LET hits == {k \in 1..7 : rule_matches(k, raw, name)} IN
    IF hits = {} THEN <<FALSE, "">> ELSE rule_verdicts[MinOf(hits)]

\* C21 as stated: is_junk_tag gives the verdict of the first matching rule of
\* the list blocklist, valid_acronym, too_short, single_char, all_digits,
\* no_alphanumeric, generic_suffix, the rules looking up the lower-cased name
\* and measuring its length.
Orig_C21_DecisionList ==
    junk_out # None => junk_out[1] = first_rule_verdict(junk_in, lower(junk_in))

\* C21 as amended: is_junk_tag gives the verdict of the first matching rule of
\* that list when the blocklist, the acronym set, the length of too_short and
\* the suffix rule take the lower-cased name without its surrounding
\* whitespace, and the other tests take the raw string; a name that is all
\* upper-case and at most two characters long never gets too_short.
Thm_C21_DecisionListStripped ==
    junk_out # None =>
        /\ junk_out[1] = first_rule_verdict(junk_in, junk_lower_name)
        /\ (isupper(junk_in) /\ Len(junk_in) <= 2) => junk_out[1][2] # "too_short"

\* an acronym between blanks has been classified
Wit_C21_PaddedAcronym ==
    /\ junk_out # None
    /\ junk_in = " ai "
    /\ junk_out[1] = <<FALSE, "valid_acronym">>
    /\ first_rule_verdict(junk_in, lower(junk_in)) = <<FALSE, "">>

(***************************************************************************)
(* The case rule of the planner against the case rule of the normalizer.   *)
(***************************************************************************)
\* C22: choose_canonical_form(variants) is normalize_case(variants[0]).
Orig_C22_SameCaseRule ==
    (case_out # None /\ case_out[1].fn = "choose_canonical_form")
        => case_out[1].result = normalize_case(case_out[1].variants[1])

\* s with the first character of each whitespace-delimited word upper-cased and
\* every other character lower-cased
RECURSIVE capitalize_from(_, _)
capitalize_from(s, word_start) ==
    IF s = "" THEN ""
    ELSE (IF word_start THEN upperCh(Head(s)) ELSE lowerCh(Head(s)))
             \o capitalize_from(Tail(s), isspaceCh(Head(s)))

capitalize_words(s) == capitalize_from(s, TRUE)

\* C23: for a tag that is no known acronym normalize_case capitalizes the
\* first letter of each whitespace-delimited word and lower-cases every other
\* letter, also one that follows a digit, a hyphen or an apostrophe.
Orig_C23_WordTitleCase ==
    (case_out # None /\ case_out[1].fn = "normalize_case" /\ lower(case_in) \notin ACRONYMS)
        => case_out[1].result = capitalize_words(case_in)

(***************************************************************************)
(* Claims about the plan's semantic consolidations.                        *)
(***************************************************************************)
\* the names of the analyzed tags that match, ignoring case, a synonym string
\* of group g
matched_names(g) ==
    {tags[i].name : i \in {j \in 1..Len(tags) :
        \E k \in 1..Len(semantic_groups[g][2]) :
            lower(tags[j].name) = semantic_groups[g][2][k]}}

\* C24: a synonym group is emitted exactly when two or more distinct tag names
\* match one of its synonym strings ignoring case, and then every matched name
\* other than the group's label is a key of semantic_consolidations mapped to
\* the label.
Orig_C24_SemanticOverlaps ==
    mapping # None =>
        \A g \in 1..Len(semantic_groups) :
            IF Cardinality(matched_names(g)) >= 2
            THEN \A n \in matched_names(g) \ {semantic_groups[g][1]} :
                    /\ n \in DOMAIN plan.semantic_consolidations
                    /\ plan.semantic_consolidations[n] = semantic_groups[g][1]
            ELSE \A n \in DOMAIN plan.semantic_consolidations :
                    plan.semantic_consolidations[n] # semantic_groups[g][1]

\* the names the plan folds other names into
consolidation_targets ==
    {plan.case_normalizations[n] : n \in DOMAIN plan.case_normalizations}
        \cup {plan.semantic_consolidations[n] : n \in DOMAIN plan.semantic_consolidations}

\* C27: no name that other names are folded into is in tags_to_delete.
Orig_C27_TargetsSurvive ==
    mapping # None => deleted_names \cap consolidation_targets = {}

\* C28: no name that other names are folded into is itself a key of
\* case_normalizations or semantic_consolidations.
Orig_C28_PlanFlat ==
    mapping # None => consolidation_targets \cap consolidation_keys = {}

(***************************************************************************)
(* Claims about the junk remover's loop.                                   *)
(***************************************************************************)
\* the ids of the junk tags of the analysis that min_usage lets through
ids_to_delete ==
    {analysis.junk_tags[i].tag.id :
        i \in {j \in 1..Len(analysis.junk_tags) :
                 min_usage > 0 => analysis.junk_tags[j].usage <= min_usage}}

\* C25: the DELETEs are sent in non-decreasing order of usage; each is for a
\* tag is_junk_tag calls junk and, with min_usage > 0, of usage <= min_usage;
\* a live run that went through its loop has sent one for every such tag (for
\* every junk tag with min_usage = 0); the tags that are not junk stay in the
\* store.
Thm_C25_RemovalOrderAndFilter ==
    /\ \A i, j \in 1..Len(deletes) : i < j => deletes[i].usage <= deletes[j].usage
    /\ \A k \in 1..Len(deletes) :
          /\ is_junk_tag(JUNK_WORDS, deletes[k].name)[1]
          /\ deletes[k].tag_id \in ids_to_delete
          /\ min_usage > 0 => deletes[k].usage <= min_usage
    /\ (rm_pc = "done" /\ rm_idx > 0 /\ ~remover_dry_run)
          => {deletes[k].tag_id : k \in 1..Len(deletes)} = ids_to_delete
    /\ \A g \in 1..Len(analysis.good_tags) :
          \E t \in 1..Len(tag_store) : tag_store[t].id = analysis.good_tags[g].id

\* a live run with a positive min_usage is over: the junk tag listed later was
\* deleted first, and the one whose usage equals min_usage was deleted too
Wit_C25_SortedAndFiltered ==
    /\ rm_pc = "done"
    /\ min_usage = 2
    /\ Len(deletes) = 2
    /\ deletes[1].usage < deletes[2].usage
    /\ deletes[2].usage = min_usage
    /\ deletes[1].tag_id > deletes[2].tag_id

(***************************************************************************)
(* Claims about the lookback window.                                       *)
(***************************************************************************)
\* updatedAt is a valid ISO time, naive, ending in Z or with an offset, at or
\* after now minus lookback_minutes
in_window(updated_at) ==
    updated_at.form \in {"naive", "Z", "offset"} /\ updated_at.age <= lookback_minutes

RECURSIVE ids_in_window(_)
ids_in_window(l) ==
    IF l > MaxLinks THEN <<>>
    ELSE (IF in_window(store_links[l].updatedAt) THEN <<l>> ELSE <<>>) \o ids_in_window(l + 1)

\* C26: fetch_recent_links returns, in input order, exactly the links whose
\* updatedAt is a valid ISO time (the form ending in Z included) inside the
\* window, and the run processes every one of them.
Orig_C26_LookbackSelection ==
    /\ pc \in {"loop", "fetch_link", "put", "done"}
          => [i \in 1..Len(recent_links) |-> recent_links[i].id] = ids_in_window(1)
    /\ pc = "done" => stats.links_processed = Len(ids_in_window(1))

(***************************************************************************)
(* Claims about normalize_link_tags on its own.                            *)
(***************************************************************************)
\* C29: when every tag of the link is in the existing-tag list, no two names
\* of the list normalize_link_tags returns are equal after lower-casing,
\* whatever the order of the existing-tag list and the threshold.
Thm_C29_DistinctIgnoringCase ==
    (fz_out.called /\ fz_link_tags # <<>> /\ fz_out.result # None) =>
        /\ \A i \in 1..Len(fz_link_tags) : fz_link_tags[i] \in Range(fz_existing)
        /\ \A i, j \in 1..Len(fz_out.result[1]) :
              lower(fz_out.result[1][i]) = lower(fz_out.result[1][j]) => i = j

\* a link with two tags that differ in case only, and a third one, came back
\* with fewer names, while the list has both case variants
Wit_C29_CaseVariantsOnLink ==
    /\ fz_out.called
    /\ fz_out.result # None
    /\ Len(fz_link_tags) = 3
    /\ \E i, j \in 1..Len(fz_link_tags) :
          i # j /\ lower(fz_link_tags[i]) = lower(fz_link_tags[j])
    /\ Len(fz_out.result[1]) = 2
====
